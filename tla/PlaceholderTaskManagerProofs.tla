-------------------- MODULE PlaceholderTaskManagerProofs --------------------
(***************************************************************************)
(* What holds of PlaceholderTaskManager for any numbers of threads, files, *)
(* applications and requests and any limits.                               *)
(***************************************************************************)
EXTENDS PlaceholderTaskManagerRemoval

(* Every step keeps the inductive invariant.                               *)
LEMMA NextIInv ==
  ASSUME IInv, [Next]_vars
  PROVE  IInv'
<1>1. CASE UNCHANGED vars
  BY <1>1, TaskTypeOKFrame, TableTypeOKFrame, ThreadTypeOKFrame, RoleInvFrame,
     TaskInvFrame, TableInvFrame, ThreadInvFrame, Zenon DEF vars, IInv, taskVars, mapVars,
     flagVars, tableVars, lockVars, threadVars, historyVars
<1>2. ASSUME NEW t \in Clients, Call(t) PROVE IInv'
  BY <1>2, CreateHydrateTaskStep, RegisterCallbackTableStep, CancelTaskStep,
     ExecuteFoundStep, ExecuteNotFoundStep, UnregisterCallbackTableStep, Zenon DEF Call
<1>3. CASE LifecycleCall \/ LifecycleStep
  BY <1>3, ClearAllStep, StartSchedulerStep, StopSchedulerStep, StopSchedulerEndsStep,
     ClearCancellationRecordsStep, Zenon DEF LifecycleCall, LifecycleStep
<1>4. ASSUME NEW t \in Threads, ThreadStep(t) PROVE IInv'
  BY <1>4, ScheduleDispatchStep, KeepRecordStep, EraseTaskStep, CancelNextStep,
     CancelDoneStep, FindEntryStep, LockEntryStep, SendCallbackStep, ExecuteLocksStep,
     ExecuteCancelStep, ExecuteFailsStep, ExecutePartialStep, ExecuteCompleteStep,
     DispatchBarrierStep, CopyTasksStep, Zenon DEF ThreadStep
<1>5. CASE DispatcherStep \/ MonitorStep
  BY <1>5, DispatchLoopEndsStep, DispatchLoopSelectsStep, ActivateTaskStep,
     FetchDispatchedStep, DeadlineLoopWakesStep, DeadlineLoopEndsStep, Zenon DEF DispatcherStep,
     MonitorStep
<1>6. CASE Clock
  BY <1>6, DeadlinePassesStep, RecordExpiresStep, Zenon DEF Clock
<1> QED
  BY <1>1, <1>2, <1>3, <1>4, <1>5, <1>6 DEF Next

(***************************************************************************)
(* The invariant, and the properties that follow from it directly.         *)
(***************************************************************************)
LEMMA InitIInv == Init => IInv
<1> SUFFICES ASSUME Init PROVE IInv
  OBVIOUS
<1>1. TaskTypeOK
  BY BoundsAssumption, AppOfAssumption, PrioritiesAssumption
     DEF Init, TaskTypeOK, States, Keys
<1>2. TableTypeOK
  <2>1. (CHOOSE a \in Apps : TRUE) \in Apps
    BY AppOfAssumption, Zenon
  <2>2. 1 \in 1..(MaxEntry + 1)
    BY BoundsAssumption
  <2> QED
    BY <2>1, <2>2, Zenon DEF Init, TableTypeOK
<1>3. ThreadTypeOK
  BY Zenon DEF Init, ThreadTypeOK, Labels, Reasons
<1>4. RoleInv
  BY ThreadFacts, Zenon DEF Init, RoleInv
<1>5. TaskInv
  BY Zenon DEF Init, TaskInv, Outstanding
<1>6. TableInv
  BY Zenon DEF Init, TableInv
<1>7. ThreadInv
  BY Zenon DEF Init, ThreadInv, LockOf, StateOf, SendOf, Holding
<1> QED
  BY <1>1, <1>2, <1>3, <1>4, <1>5, <1>6, <1>7, Zenon DEF IInv

(* The inductive invariant holds of every behaviour of the scheduler, its  *)
(* conjuncts on types, on the threads' mutexes, on the tasks and on the    *)
(* registry of callback tables.                                            *)
THEOREM Invariance == Spec => []IInv
<1>1. IInv /\ [Next]_vars => IInv'
  BY NextIInv, Zenon
<1> QED
  BY InitIInv, <1>1, PTL DEF Spec

(* A file has at most one outstanding task, and that task is in taskMap_:  *)
(* two StartHydration calls for one file never lead to two fetches.        *)
THEOREM OneTaskPerFileThm == Spec => []OneTaskPerFile
<1>1. IInv => OneTaskPerFile
  BY Zenon DEF IInv, TaskInv, OneTaskPerFile
<1> QED
  BY Invariance, <1>1, PTL

(* Nothing is sent to a provider whose callback table has been removed:    *)
(* the second look at the registry in DispatchCallback, under the entry's  *)
(* dispatch mutex, and the barrier of the removal are enough.              *)
THEOREM NoCallbackAfterRemovalThm == Spec => []NoCallbackAfterRemoval
<1>1. IInv => NoCallbackAfterRemoval
  BY Zenon DEF IInv, ThreadInv, SendOf, NoCallbackAfterRemoval
<1> QED
  BY Invariance, <1>1, PTL

(* A task is ended once: no step changes a COMPLETED or CANCELLED state,   *)
(* so CompleteTask, CancelTask, the monitor and the dispatcher never undo  *)
(* each other.                                                             *)
THEOREM TerminalStatesAreFinalThm == Spec => TerminalStatesAreFinal
<1> DEFINE Final == \A k \in Keys : state[k] \in {"COMPLETED", "CANCELLED"} =>
                                      state'[k] = state[k]
<1>1. ASSUME IInv, [Next]_vars PROVE Final
  <2>1. CASE FetchDispatched
    <3>1. state[cur["dispatcher"]] = "PENDING"
      BY <1>1, <2>1, ThreadFacts, Zenon DEF IInv, ThreadInv, StateOf, FetchDispatched
    <3> QED
      BY <1>1, <2>1, <3>1, Zenon DEF IInv, TaskTypeOK, FetchDispatched
  <2>2. CASE ~FetchDispatched
    BY <1>1, <2>2, NextMoves, StatesMove, Zenon
  <2> QED
    BY <2>1, <2>2, Zenon
<1>2. IInv /\ [Next]_vars => [Final]_vars
  BY <1>1, Zenon
<1> QED
  BY Invariance, <1>2, PTL DEF Spec, TerminalStatesAreFinal

(***************************************************************************)
(* The limits on active tasks.  Selection and activation are separate      *)
(* steps; what carries the count over from one to the other is that only   *)
(* the dispatcher makes a task active.                                     *)
(***************************************************************************)
HasSlot(k) ==
  /\ Cardinality(Active) < MaxActiveGlobal
  /\ Cardinality(OfApp(Active, App(k))) < MaxActivePerApp
WithinLimits ==
  /\ Cardinality(Active) <= MaxActiveGlobal
  /\ \A a \in Apps : Cardinality(OfApp(Active, a)) <= MaxActivePerApp
SlotInv ==
  /\ WithinLimits
  /\ pc["dispatcher"] \in Slotted /\ state[cur["dispatcher"]] = "PENDING" =>
       HasSlot(cur["dispatcher"])
  /\ pc["dispatcher"] \in Slotted => state[cur["dispatcher"]] # "ABSENT"

LEMMA ActiveIsActiveTasks == IInv => Active = ActiveTasks
BY Zenon DEF IInv, TaskInv, TaskTypeOK, Outstanding, Active, ActiveTasks

LEMMA SubsetsAreFinite ==
  ASSUME NEW S, S \subseteq Keys
  PROVE  IsFiniteSet(S) /\ Cardinality(S) \in Nat
<1>1. IsFiniteSet(Keys)
  BY BoundsAssumption, FS_Interval DEF Keys
<1>2. IsFiniteSet(S)
  BY <1>1, FS_Subset, Zenon
<1> QED
  BY <1>2, FS_CardinalityType, Zenon

LEMMA SmallerSet ==
  ASSUME NEW S, S \subseteq Keys, NEW T, T \subseteq S
  PROVE  Cardinality(T) <= Cardinality(S) /\ Cardinality(T) \in Nat /\ Cardinality(S) \in Nat
<1>1. T \in SUBSET S /\ T \subseteq Keys
  OBVIOUS
<1>2. IsFiniteSet(S) /\ Cardinality(S) \in Nat /\ Cardinality(T) \in Nat
  BY <1>1, SubsetsAreFinite, Zenon
<1>3. Cardinality(T) <= Cardinality(S)
  BY <1>1, <1>2, FS_Subset, Zenon
<1> QED
  BY <1>2, <1>3, Zenon

LEMMA OneMore ==
  ASSUME NEW S, S \subseteq Keys, NEW k \in Keys, NEW n \in Nat, Cardinality(S) < n
  PROVE  Cardinality(S \cup {k}) <= n
<1>1. IsFiniteSet(S) /\ Cardinality(S) \in Nat
  BY SubsetsAreFinite, Zenon
<1>2. \/ Cardinality(S \cup {k}) = Cardinality(S)
      \/ Cardinality(S \cup {k}) = Cardinality(S) + 1
  BY <1>1, FS_AddElement, Zenon
<1> QED
  BY <1>1, <1>2

LEMMA LimitsKept ==
  ASSUME IInv, SlotInv, [Next]_vars, ~FetchDispatched
  PROVE  SlotInv'
<1>1. TaskMove /\ DispatcherMove
  BY NextMoves, Zenon
<1>2. /\ Active' \subseteq Active
      /\ \A k \in Keys : state[k] # "ABSENT" => file'[k] = file[k]
  BY <1>1, ActiveShrinks, Zenon
<1>3. Active \subseteq Keys /\ Active' \subseteq Keys
  BY Zenon DEF Active
<1>4. ASSUME NEW a
      PROVE  /\ OfApp(Active, a)' \subseteq OfApp(Active, a)
             /\ OfApp(Active, a) \subseteq Keys
  BY <1>2, <1>3, Zenon DEF OfApp, App, Active
<1>5. /\ Cardinality(Active') <= Cardinality(Active)
      /\ Cardinality(Active') \in Nat /\ Cardinality(Active) \in Nat
  BY <1>2, <1>3, SmallerSet, Zenon
<1>6. ASSUME NEW a
      PROVE  /\ Cardinality(OfApp(Active, a)') <= Cardinality(OfApp(Active, a))
             /\ Cardinality(OfApp(Active, a)') \in Nat /\ Cardinality(OfApp(Active, a)) \in Nat
  BY <1>4, SmallerSet, Zenon
<1>7. WithinLimits'
  BY <1>5, <1>6, LimitsAssumption DEF SlotInv, WithinLimits
<1>8. ASSUME NEW k \in Keys, state[k] # "ABSENT"
      PROVE  state'[k] = state[k] \/ state'[k] \in {"CANCELLED", "COMPLETED"}
  BY <1>1, <1>8, StatesMove, Zenon
<1>9. ASSUME NEW k \in Keys, state[k] # "ABSENT", HasSlot(k), k = cur'["dispatcher"]
      PROVE  HasSlot(cur["dispatcher"])'
  <2>1. App(cur["dispatcher"])' = App(k)
    BY <1>2, <1>9, Zenon DEF App
  <2> QED
    BY <1>5, <1>6, <1>9, <2>1, LimitsAssumption DEF HasSlot
<1>10. ASSUME pc'["dispatcher"] \in Slotted
      PROVE  /\ state'[cur'["dispatcher"]] # "ABSENT"
             /\ state'[cur'["dispatcher"]] = "PENDING" => HasSlot(cur["dispatcher"])'
  <2> DEFINE k == cur'["dispatcher"]
  <2>1. k \in Keys
    <3>1. IInv'
      BY NextIInv, Zenon
    <3> QED
      BY <1>10, <3>1, ThreadFacts, Zenon DEF IInv, ThreadInv, LockOf, Holding, Slotted
  <2>2. CASE DispatchLoopSelects
    <3>1. k \in Selectable /\ state' = state
      BY <2>2, ThreadFacts, Zenon DEF IInv, ThreadTypeOK, DispatchLoopSelects, taskVars
    <3>2. Active = ActiveTasks
      BY ActiveIsActiveTasks, Zenon
    <3>3. ~(Cardinality(Active) >= MaxActiveGlobal)
      BY <3>1, <3>2, Zenon DEF Selectable
    <3>4. Cardinality(OfApp(Active, App(k))) < MaxActivePerApp /\ k \in PendingTasks
      BY <3>1, <3>2, Zenon DEF Selectable
    <3>5. HasSlot(k) /\ state[k] = "PENDING"
      BY <1>5, <3>3, <3>4, LimitsAssumption DEF HasSlot, PendingTasks
    <3> QED
      BY <1>9, <2>1, <3>1, <3>5, Zenon
  <2>3. CASE pc["dispatcher"] \in Slotted /\ k = cur["dispatcher"]
    <3>1. state[k] # "ABSENT" /\ (state[k] = "PENDING" => HasSlot(k))
      BY <2>3, Zenon DEF SlotInv
    <3>2. state'[k] = state[k] \/ state'[k] \in {"CANCELLED", "COMPLETED"}
      BY <2>1, <3>1, <1>8, Zenon
    <3> QED
      BY <1>9, <2>1, <3>1, <3>2, Zenon
  <2> QED
    BY <1>1, <1>10, <2>2, <2>3, Zenon DEF DispatcherMove
<1> QED
  BY <1>7, <1>10, Zenon DEF SlotInv

LEMMA LimitsKeptByStart ==
  ASSUME IInv, SlotInv, FetchDispatched
  PROVE  SlotInv'
<1> DEFINE k == cur["dispatcher"]
<1>1. /\ k \in Keys /\ state[k] = "PENDING" /\ pc["dispatcher"] = "sent"
      /\ state' = [state EXCEPT ![k] = "IN_PROGRESS"] /\ file' = file
      /\ pc'["dispatcher"] = "select"
  BY ThreadFacts DEF IInv, ThreadTypeOK, ThreadInv, LockOf, StateOf, Holding,
     FetchDispatched, Goto
<1>2. HasSlot(k)
  BY <1>1, Zenon DEF SlotInv, Slotted
<1>3. Active' = Active \cup {k} /\ Active \subseteq Keys
  BY <1>1, Zenon DEF IInv, TaskTypeOK, Active
<1>4. Cardinality(Active') <= MaxActiveGlobal
  BY <1>1, <1>2, <1>3, OneMore, LimitsAssumption, Zenon DEF HasSlot
<1>5. ASSUME NEW a \in Apps PROVE Cardinality(OfApp(Active, a)') <= MaxActivePerApp
  <2>1. OfApp(Active, a) \subseteq Keys
    BY <1>3, Zenon DEF OfApp
  <2>2. CASE a = App(k)
    <3>1. OfApp(Active, a)' = OfApp(Active, a) \cup {k}
      BY <1>1, <1>3, <2>2, Zenon DEF OfApp, App
    <3>2. Cardinality(OfApp(Active, a)) < MaxActivePerApp
      BY <1>2, <2>2, Zenon DEF HasSlot
    <3>3. Cardinality(OfApp(Active, a) \cup {k}) <= MaxActivePerApp
      BY <1>1, <2>1, <3>2, OneMore, LimitsAssumption, Zenon
    <3> QED
      BY <3>1, <3>3, Zenon
  <2>3. CASE a # App(k)
    <3>1. OfApp(Active, a)' = OfApp(Active, a)
      BY <1>1, <1>3, <2>3, Zenon DEF OfApp, App
    <3> QED
      BY <3>1, Zenon DEF SlotInv, WithinLimits
  <2> QED
    BY <2>2, <2>3, Zenon
<1> QED
  BY <1>1, <1>4, <1>5, Zenon DEF SlotInv, WithinLimits, Slotted

LEMMA InitSlotInv == Init => SlotInv
<1> SUFFICES ASSUME Init PROVE SlotInv
  OBVIOUS
<1>1. Active = {} /\ \A a : OfApp(Active, a) = {}
  BY Zenon DEF Init, Active, OfApp
<1>2. Cardinality(Active) = 0 /\ \A a : Cardinality(OfApp(Active, a)) = 0
  BY <1>1, FS_EmptySet, Zenon
<1>3. pc["dispatcher"] = "idle"
  BY ThreadFacts, Zenon DEF Init
<1> QED
  BY <1>2, <1>3, LimitsAssumption DEF SlotInv, WithinLimits, Slotted

LEMMA SlotInvariance == Spec => []SlotInv
<1>1. IInv /\ SlotInv /\ [Next]_vars => SlotInv'
  BY LimitsKept, LimitsKeptByStart, Zenon
<1> QED
  BY InitSlotInv, Invariance, <1>1, PTL DEF Spec

(* CLOUD_DISK_MAX_ACTIVE_TASKS_PER_APP and _GLOBAL are never exceeded,     *)
(* whatever their values: between SelectNextTaskLocked and the activation  *)
(* of the task in DispatchLoop no other thread can take its slot.          *)
THEOREM ActiveLimitsHoldThm == Spec => []ActiveLimitsHold
<1>1. IInv /\ SlotInv => ActiveLimitsHold
  BY ActiveIsActiveTasks, Zenon DEF SlotInv, WithinLimits, ActiveLimitsHold
<1> QED
  BY Invariance, SlotInvariance, <1>1, PTL

(***************************************************************************)
(* The scheduler implements the abstract queue.                            *)
(***************************************************************************)
LEMMA SameCardinality == \A S : Queue!Cardinality(S) = Cardinality(S)
BY Zenon DEF Cardinality, Queue!Cardinality

LEMMA InitIsInit == Init => Queue!Init
BY AppOfAssumption DEF Init, Queue!Init

LEMMA SubmitIsSubmit ==
  ASSUME IInv, NEW t \in Clients, NEW f \in Files, NEW p \in Priorities,
         CreateHydrateTask(t, f, p)
  PROVE  Queue!Next
<1>1. /\ nextKey \in Keys /\ nextKey <= nextKey
      /\ state' = [state EXCEPT ![nextKey] = "PENDING"]
      /\ file' = [file EXCEPT ![nextKey] = f] /\ PrepareHydrateTask(f)
  BY KeyFacts DEF IInv, TaskTypeOK, CreateHydrateTask
<1>2. state[nextKey] = "ABSENT"
  BY <1>1, Zenon DEF IInv, TaskInv
<1>3. PendingTasks = Queue!With("PENDING")
  BY Zenon DEF IInv, TaskTypeOK, TaskInv, Outstanding, PendingTasks, Queue!With
<1>4. OfApp(PendingTasks, AppOf[f]) = Queue!OfApp(Queue!With("PENDING"), AppOf[f])
  BY <1>3, Zenon DEF OfApp, App, Queue!OfApp
<1>5. \A l \in Queue!With("PENDING") \cup Queue!With("IN_PROGRESS") : file[l] # f
  BY <1>1, Zenon DEF IInv, TaskInv, Outstanding, PrepareHydrateTask, Queue!With
<1>6. Queue!Submit(nextKey, f)
  BY <1>1, <1>2, <1>3, <1>4, <1>5, SameCardinality, Zenon DEF PrepareHydrateTask, Queue!Submit
<1> QED
  BY <1>1, <1>6, Zenon DEF Queue!Next

LEMMA StartIsStart ==
  ASSUME IInv, SlotInv, FetchDispatched
  PROVE  Queue!Next
<1> DEFINE k == cur["dispatcher"]
<1>1. /\ k \in Keys /\ state[k] = "PENDING" /\ pc["dispatcher"] = "sent"
      /\ state' = [state EXCEPT ![k] = "IN_PROGRESS"] /\ file' = file
  BY ThreadFacts, Zenon DEF IInv, ThreadInv, LockOf, StateOf, Holding, FetchDispatched
<1>2. HasSlot(k)
  BY <1>1, Zenon DEF SlotInv, Slotted
<1>3. /\ Active = Queue!With("IN_PROGRESS")
      /\ OfApp(Active, App(k)) = Queue!OfApp(Queue!With("IN_PROGRESS"), AppOf[file[k]])
  BY Zenon DEF Active, OfApp, App, Queue!With, Queue!OfApp
<1>4. Queue!Start(k)
  BY <1>1, <1>2, <1>3, SameCardinality, Zenon DEF HasSlot, Queue!Start
<1> QED
  BY <1>1, <1>4, Zenon DEF Queue!Next

LEMMA StepIsStep ==
  ASSUME IInv, SlotInv, [Next]_vars
  PROVE  [Queue!Next]_Queue!vars
<1>1. TaskMove
  BY NextMoves, Zenon
<1>2. CASE UNCHANGED <<state, file>>
  BY <1>2, Zenon DEF Queue!vars
<1>3. CASE \E k \in Keys : state[k] = "IN_PROGRESS" /\ Ends(k, "COMPLETED")
  BY <1>3, Zenon DEF Ends, Queue!Next, Queue!Complete
<1>4. CASE \E k \in Keys : Outstanding(k) /\ Ends(k, "CANCELLED")
  BY <1>4, Zenon DEF Ends, Outstanding, Queue!Next, Queue!Cancel
<1> QED
  BY <1>1, <1>2, <1>3, <1>4, SubmitIsSubmit, StartIsStart, Zenon DEF TaskMove

(* The scheduler, with its threads, mutexes and rechecks, implements the   *)
(* queue a caller of StartHydration relies on: every step submits, starts, *)
(* completes or cancels one task within the limits, or does not show.      *)
THEOREM ImplementsQueueThm == Spec => ImplementsQueue
<1>1. IInv /\ SlotInv /\ [Next]_vars => [Queue!Next]_Queue!vars
  BY StepIsStep, Zenon
<1> QED
  BY InitIsInit, Invariance, SlotInvariance, <1>1, PTL
     DEF Spec, ImplementsQueue, Queue!Spec

(***************************************************************************)
(* The second part of the inductive invariant, and what follows from it.   *)
(***************************************************************************)
WorkInv ==
  /\ HoldInv /\ DeadlineInv /\ LoopInv /\ StopInv
  /\ EntryInv /\ OrphanInv /\ RecordInv

LEMMA InitWorkInv == Init => WorkInv
<1> SUFFICES ASSUME Init PROVE WorkInv
  OBVIOUS
<1>1. HoldInv
  BY ThreadFacts, Zenon DEF Init, HoldInv, Holding
<1>2. DeadlineInv /\ LoopInv
  BY ThreadFacts, Zenon DEF Init, DeadlineInv, LoopInv, Loop
<1>3. StopInv
  BY ThreadFacts, Zenon DEF Init, StopInv, Loop
<1>4. EntryInv /\ OrphanInv
  BY Zenon DEF Init, EntryInv, OrphanInv, NoOrphanedTask, Outstanding
<1>5. RecordInv
  <2>1. records = <<>> /\ expired = 0 /\ \A k \in Keys : state[k] = "ABSENT"
    BY Zenon DEF Init
  <2>2. <<>> \in Seq(Keys) /\ Len(<<>>) = 0
    OBVIOUS
  <2> QED
    BY <2>1, <2>2 DEF RecordInv, RecordTypeOK
<1> QED
  BY <1>1, <1>2, <1>3, <1>4, <1>5, Zenon DEF WorkInv

(* The second part of the invariant holds of every behaviour: who holds a  *)
(* task's mutex, what the cancelling loops have still to do, which tasks a *)
(* removal or a stop has yet to reach, and where the cancellation records  *)
(* are.                                                                    *)
THEOREM WorkInvariance == Spec => []WorkInv
<1>1. IInv /\ WorkInv /\ [Next]_vars => WorkInv'
  BY HoldInvKept, DeadlineInvKept, LoopInvKept, StopInvKept, EntryInvKept, OrphanInvKept,
     RecordInvKept, Zenon DEF WorkInv
<1> QED
  BY InitWorkInv, Invariance, <1>1, PTL DEF Spec

(* StopScheduler ends with an empty taskMap_: while stopping_ is set no    *)
(* task is added, and each task is among those it copied or in its hands.  *)
THEOREM StopLeavesNoTaskThm == Spec => []StopLeavesNoTask
<1>1. IInv /\ WorkInv => StopLeavesNoTask
  BY ThreadFacts, Zenon DEF WorkInv, StopInv, LoopInv, Loop, Holding, StopLeavesNoTask
<1> QED
  BY Invariance, WorkInvariance, <1>1, PTL

(* A task of an application whose callback table is gone is one that a     *)
(* removal or ClearAll will still copy, or has copied and will cancel,     *)
(* whatever the interleaving of removals, registrations and StartHydration.*)
THEOREM NoOrphanedTaskThm == Spec => []NoOrphanedTask
<1>1. WorkInv => NoOrphanedTask
  BY Zenon DEF WorkInv, OrphanInv
<1> QED
  BY WorkInvariance, <1>1, PTL

(* Execute on a cancelled task finds the task or its cancellation record,  *)
(* unless the record expired, was evicted or was not to be kept.           *)
THEOREM CancellationIsRememberedThm == Spec => []CancellationIsRemembered
<1>1. WorkInv => CancellationIsRemembered
  BY DEF WorkInv, RecordInv, Remembered, HoldInv, Holding, CancellationIsRemembered
<1> QED
  BY WorkInvariance, <1>1, PTL

(***************************************************************************)
(* Who takes the mutex of a task, and who gives a task its priority.       *)
(***************************************************************************)
MutexMove ==
  \/ CancelNext("monitor")
  \/ \A k \in Keys : taskLock'[k] = "monitor" => taskLock[k] = "monitor"
PrioMove ==
  \/ prio' = prio
  \/ \E t \in Clients, f \in Files, p \in Priorities : CreateHydrateTask(t, f, p)

LEMMA MutexMoves ==
  ASSUME IInv, LoopInv, [Next]_vars
  PROVE  MutexMove
<1>1. CASE UNCHANGED vars
  BY <1>1, Zenon DEF vars, lockVars, MutexMove
<1>2. ASSUME NEW t \in Clients, Call(t) PROVE MutexMove
  <2>1. ASSUME NEW f \in Files, NEW p \in Priorities, CreateHydrateTask(t, f, p) PROVE
     MutexMove
    BY <2>1, Zenon DEF CreateHydrateTask, PurgeExpiredCancellationRecords, RecordsAre, lockVars,
       MutexMove
  <2>2. ASSUME NEW a \in Apps, RegisterCallbackTable(t, a) PROVE MutexMove
    BY <2>2, Zenon DEF RegisterCallbackTable, lockVars, MutexMove
  <2>3. ASSUME NEW f \in Files, CancelTask(t, f) PROVE MutexMove
    BY <2>3, Zenon DEF CancelTask, lockVars, MutexMove
  <2>4. ASSUME NEW k \in Keys, ExecuteFound(t, k) PROVE MutexMove
    BY <2>4, Zenon DEF ExecuteFound, lockVars, MutexMove
  <2>5. ASSUME NEW k \in Keys, ExecuteNotFound(t, k) PROVE MutexMove
    BY <2>5, Zenon DEF ExecuteNotFound, PurgeExpiredCancellationRecords, RecordsAre, lockVars,
       MutexMove
  <2>6. ASSUME NEW a \in Apps, NEW r \in {"UNREGISTER", "CALLBACK_DIED"},
     UnregisterCallbackTable(t, a, r) PROVE MutexMove
    BY <2>6, Zenon DEF UnregisterCallbackTable, lockVars, MutexMove
  <2> QED
    BY <1>2, <2>1, <2>2, <2>3, <2>4, <2>5, <2>6, Zenon DEF Call
<1>3. ASSUME NEW t \in Threads, ThreadStep(t) PROVE MutexMove
  <2>1. CASE EraseTask(t)
    BY <2>1, ThreadFacts DEF EraseTask, Goto, Forget, IInv, ThreadTypeOK, TaskTypeOK,
       ThreadInv, LockOf, LoopInv, Loop, MutexMove
  <2>2. CASE CancelNext(t)
    <3>1. CASE t = "monitor"
      BY <2>2, <3>1, Zenon DEF MutexMove
    <3>2. CASE t # "monitor"
      <4>1. taskLock' = taskLock \/ \E k \in Keys : taskLock' = [taskLock EXCEPT ![k] = t]
        BY <2>2, <1>3, Zenon DEF CancelNext, IInv, ThreadTypeOK
      <4> QED
        BY <3>2, <4>1, Zenon DEF MutexMove, IInv, TaskTypeOK
    <3> QED
      BY <3>1, <3>2, Zenon
  <2>3. CASE ExecuteLocks(t)
    BY <2>3, ThreadFacts DEF ExecuteLocks, Goto, Forget, IInv, ThreadTypeOK, TaskTypeOK,
       ThreadInv, LockOf, LoopInv, Loop, MutexMove
  <2>4. CASE ExecuteFails(t)
    BY <2>4, ThreadFacts DEF ExecuteFails, Goto, Forget, IInv, ThreadTypeOK, TaskTypeOK,
       ThreadInv, LockOf, LoopInv, Loop, MutexMove
  <2>5. CASE ExecutePartial(t)
    BY <2>5, ThreadFacts DEF ExecutePartial, Goto, Forget, IInv, ThreadTypeOK, TaskTypeOK,
       ThreadInv, LockOf, LoopInv, Loop, MutexMove
  <2>6. CASE ScheduleDispatch(t)
    BY <2>6, Zenon DEF ScheduleDispatch, lockVars, MutexMove
  <2>7. CASE KeepRecord(t)
    BY <2>7, Zenon DEF KeepRecord, RecordsAre, lockVars, MutexMove
  <2>8. CASE CancelDone(t)
    BY <2>8, Zenon DEF CancelDone, lockVars, MutexMove
  <2>9. CASE FindEntry(t)
    BY <2>9, Zenon DEF FindEntry, lockVars, MutexMove
  <2>10. CASE LockEntry(t)
    BY <2>10, Zenon DEF LockEntry, MutexMove
  <2>11. CASE SendCallback(t)
    BY <2>11, Zenon DEF SendCallback, MutexMove
  <2>12. CASE ExecuteCancel(t)
    BY <2>12, Zenon DEF ExecuteCancel, lockVars, MutexMove
  <2>13. CASE ExecuteComplete(t)
    BY <2>13, Zenon DEF ExecuteComplete, lockVars, MutexMove
  <2>14. CASE DispatchBarrier(t)
    BY <2>14, Zenon DEF DispatchBarrier, lockVars, MutexMove
  <2>15. CASE CopyTasks(t)
    BY <2>15, Zenon DEF CopyTasks, lockVars, MutexMove
  <2> QED
    BY <1>3, <2>1, <2>2, <2>3, <2>4, <2>5, <2>6, <2>7, <2>8, <2>9, <2>10, <2>11, <2>12,
       <2>13, <2>14, <2>15, Zenon DEF ThreadStep
<1>4. CASE DispatcherStep
  <2>1. CASE ActivateTask
    BY <2>1, ThreadFacts DEF ActivateTask, Goto, Forget, BeginCancel, IInv, ThreadTypeOK,
       TaskTypeOK, ThreadInv, LockOf, LoopInv, Loop, MutexMove
  <2>2. CASE FetchDispatched
    BY <2>2, ThreadFacts DEF FetchDispatched, Goto, Forget, IInv, ThreadTypeOK, TaskTypeOK,
       ThreadInv, LockOf, LoopInv, Loop, MutexMove
  <2>3. CASE DispatchLoopEnds
    BY <2>3, Zenon DEF DispatchLoopEnds, lockVars, MutexMove
  <2>4. CASE DispatchLoopSelects
    BY <2>4, Zenon DEF DispatchLoopSelects, lockVars, MutexMove
  <2> QED
    BY <1>4, <2>1, <2>2, <2>3, <2>4, Zenon DEF DispatcherStep
<1>5. CASE MonitorStep
  <2>1. CASE DeadlineLoopWakes
    BY <2>1, Zenon DEF DeadlineLoopWakes, lockVars, MutexMove
  <2>2. CASE DeadlineLoopEnds
    BY <2>2, Zenon DEF DeadlineLoopEnds, lockVars, MutexMove
  <2> QED
    BY <1>5, <2>1, <2>2, Zenon DEF MonitorStep
<1>6. CASE LifecycleCall
  <2>1. ASSUME NEW r \in {"SERVICE_STOP", "USER_SWITCH"}, ClearAll(r) PROVE MutexMove
    BY <2>1, Zenon DEF ClearAll, lockVars, MutexMove
  <2>2. CASE StartScheduler
    BY <2>2, Zenon DEF StartScheduler, lockVars, MutexMove
  <2> QED
    BY <1>6, <2>1, <2>2, Zenon DEF LifecycleCall
<1>7. CASE LifecycleStep
  <2>1. CASE StopScheduler
    BY <2>1, Zenon DEF StopScheduler, lockVars, MutexMove
  <2>2. CASE StopSchedulerEnds
    BY <2>2, Zenon DEF StopSchedulerEnds, ClearedRecords, RecordsAre, lockVars, MutexMove
  <2>3. CASE ClearCancellationRecords
    BY <2>3, Zenon DEF ClearCancellationRecords, ClearedRecords, RecordsAre, lockVars, MutexMove
  <2> QED
    BY <1>7, <2>1, <2>2, <2>3, Zenon DEF LifecycleStep
<1>8. CASE Clock
  <2>1. ASSUME NEW k \in Keys, DeadlinePasses(k) PROVE MutexMove
    BY <2>1, Zenon DEF DeadlinePasses, lockVars, MutexMove
  <2>2. CASE RecordExpires
    BY <2>2, Zenon DEF RecordExpires, lockVars, MutexMove
  <2> QED
    BY <1>8, <2>1, <2>2, Zenon DEF Clock
<1> QED
  BY <1>1, <1>2, <1>3, <1>4, <1>5, <1>6, <1>7, <1>8, Zenon DEF Next

LEMMA PrioMoves ==
  ASSUME IInv, [Next]_vars
  PROVE  PrioMove
<1>1. CASE UNCHANGED vars
  BY <1>1, Zenon DEF vars, taskVars, PrioMove
<1>2. ASSUME NEW t \in Clients, Call(t) PROVE PrioMove
  <2>1. ASSUME NEW f \in Files, NEW p \in Priorities, CreateHydrateTask(t, f, p) PROVE
     PrioMove
    BY <2>1, ThreadFacts, Zenon DEF CreateHydrateTask, Goto, PurgeExpiredCancellationRecords,
       RecordsAre, PrioMove
  <2>2. ASSUME NEW a \in Apps, RegisterCallbackTable(t, a) PROVE PrioMove
    BY <2>2, Zenon DEF RegisterCallbackTable, taskVars, PrioMove
  <2>3. ASSUME NEW f \in Files, CancelTask(t, f) PROVE PrioMove
    BY <2>3, Zenon DEF CancelTask, taskVars, PrioMove
  <2>4. ASSUME NEW k \in Keys, ExecuteFound(t, k) PROVE PrioMove
    BY <2>4, Zenon DEF ExecuteFound, taskVars, PrioMove
  <2>5. ASSUME NEW k \in Keys, ExecuteNotFound(t, k) PROVE PrioMove
    BY <2>5, Zenon DEF ExecuteNotFound, PurgeExpiredCancellationRecords, RecordsAre, taskVars,
       PrioMove
  <2>6. ASSUME NEW a \in Apps, NEW r \in {"UNREGISTER", "CALLBACK_DIED"},
     UnregisterCallbackTable(t, a, r) PROVE PrioMove
    BY <2>6, Zenon DEF UnregisterCallbackTable, taskVars, PrioMove
  <2> QED
    BY <1>2, <2>1, <2>2, <2>3, <2>4, <2>5, <2>6, Zenon DEF Call
<1>3. ASSUME NEW t \in Threads, ThreadStep(t) PROVE PrioMove
  <2>1. CASE ScheduleDispatch(t)
    BY <2>1, Zenon DEF ScheduleDispatch, taskVars, PrioMove
  <2>2. CASE KeepRecord(t)
    BY <2>2, Zenon DEF KeepRecord, RecordsAre, taskVars, PrioMove
  <2>3. CASE EraseTask(t)
    BY <2>3, Zenon DEF EraseTask, taskVars, PrioMove
  <2>4. CASE CancelNext(t)
    BY <2>4, Zenon DEF CancelNext, PrioMove
  <2>5. CASE CancelDone(t)
    BY <2>5, Zenon DEF CancelDone, taskVars, PrioMove
  <2>6. CASE FindEntry(t)
    BY <2>6, Zenon DEF FindEntry, PrioMove
  <2>7. CASE LockEntry(t)
    BY <2>7, Zenon DEF LockEntry, PrioMove
  <2>8. CASE SendCallback(t)
    BY <2>8, Zenon DEF SendCallback, PrioMove
  <2>9. CASE ExecuteLocks(t)
    BY <2>9, Zenon DEF ExecuteLocks, taskVars, PrioMove
  <2>10. CASE ExecuteCancel(t)
    BY <2>10, Zenon DEF ExecuteCancel, PrioMove
  <2>11. CASE ExecuteFails(t)
    BY <2>11, Zenon DEF ExecuteFails, taskVars, PrioMove
  <2>12. CASE ExecutePartial(t)
    BY <2>12, Zenon DEF ExecutePartial, PrioMove
  <2>13. CASE ExecuteComplete(t)
    BY <2>13, Zenon DEF ExecuteComplete, PrioMove
  <2>14. CASE DispatchBarrier(t)
    BY <2>14, Zenon DEF DispatchBarrier, taskVars, PrioMove
  <2>15. CASE CopyTasks(t)
    BY <2>15, Zenon DEF CopyTasks, taskVars, PrioMove
  <2> QED
    BY <1>3, <2>1, <2>2, <2>3, <2>4, <2>5, <2>6, <2>7, <2>8, <2>9, <2>10, <2>11, <2>12,
       <2>13, <2>14, <2>15, Zenon DEF ThreadStep
<1>4. CASE DispatcherStep
  <2>1. CASE DispatchLoopEnds
    BY <2>1, Zenon DEF DispatchLoopEnds, taskVars, PrioMove
  <2>2. CASE DispatchLoopSelects
    BY <2>2, Zenon DEF DispatchLoopSelects, taskVars, PrioMove
  <2>3. CASE ActivateTask
    BY <2>3, Zenon DEF ActivateTask, PrioMove
  <2>4. CASE FetchDispatched
    BY <2>4, Zenon DEF FetchDispatched, PrioMove
  <2> QED
    BY <1>4, <2>1, <2>2, <2>3, <2>4, Zenon DEF DispatcherStep
<1>5. CASE MonitorStep
  <2>1. CASE DeadlineLoopWakes
    BY <2>1, Zenon DEF DeadlineLoopWakes, taskVars, PrioMove
  <2>2. CASE DeadlineLoopEnds
    BY <2>2, Zenon DEF DeadlineLoopEnds, taskVars, PrioMove
  <2> QED
    BY <1>5, <2>1, <2>2, Zenon DEF MonitorStep
<1>6. CASE LifecycleCall
  <2>1. ASSUME NEW r \in {"SERVICE_STOP", "USER_SWITCH"}, ClearAll(r) PROVE PrioMove
    BY <2>1, Zenon DEF ClearAll, taskVars, PrioMove
  <2>2. CASE StartScheduler
    BY <2>2, Zenon DEF StartScheduler, taskVars, PrioMove
  <2> QED
    BY <1>6, <2>1, <2>2, Zenon DEF LifecycleCall
<1>7. CASE LifecycleStep
  <2>1. CASE StopScheduler
    BY <2>1, Zenon DEF StopScheduler, taskVars, PrioMove
  <2>2. CASE StopSchedulerEnds
    BY <2>2, Zenon DEF StopSchedulerEnds, ClearedRecords, RecordsAre, taskVars, PrioMove
  <2>3. CASE ClearCancellationRecords
    BY <2>3, Zenon DEF ClearCancellationRecords, ClearedRecords, RecordsAre, taskVars, PrioMove
  <2> QED
    BY <1>7, <2>1, <2>2, <2>3, Zenon DEF LifecycleStep
<1>8. CASE Clock
  <2>1. ASSUME NEW k \in Keys, DeadlinePasses(k) PROVE PrioMove
    BY <2>1, Zenon DEF DeadlinePasses, taskVars, PrioMove
  <2>2. CASE RecordExpires
    BY <2>2, Zenon DEF RecordExpires, taskVars, PrioMove
  <2> QED
    BY <1>8, <2>1, <2>2, Zenon DEF Clock
<1> QED
  BY <1>1, <1>2, <1>3, <1>4, <1>5, <1>6, <1>7, <1>8, Zenon DEF Next

(* The monitor cancels a task only while the task is in progress and its   *)
(* deadline has passed: the deadline is looked at again under the mutex.   *)
THEOREM TimeoutIsCurrentThm == Spec => TimeoutIsCurrent
<1> DEFINE Current == \A k \in Keys :
                        /\ state[k] # state'[k]
                        /\ taskLock'[k] = "monitor"
                        => state[k] = "IN_PROGRESS" /\ deadline[k] = "passed"
<1>1. ASSUME IInv, WorkInv, [Next]_vars PROVE Current
  <2> SUFFICES ASSUME NEW k \in Keys, state[k] # state'[k], taskLock'[k] = "monitor"
               PROVE  state[k] = "IN_PROGRESS" /\ deadline[k] = "passed"
    OBVIOUS
  <2>1. CASE CancelNext("monitor")
    <3>1. why["monitor"] = "TIMEOUT"
      BY <1>1, <2>1, Zenon DEF CancelNext, WorkInv, LoopInv, Loop
    <3>2. PICK l \in todo["monitor"] :
            \/ StillToCancel("monitor", l) /\ state' = [state EXCEPT ![l] = "CANCELLED"]
            \/ state' = state
      BY <2>1, Zenon DEF CancelNext, BeginCancel
    <3>3. l = k /\ StillToCancel("monitor", k)
      BY <1>1, <3>2, Zenon DEF IInv, TaskTypeOK
    <3> QED
      BY <1>1, <3>1, <3>3, Zenon DEF StillToCancel, Outstanding, WorkInv, DeadlineInv
  <2>2. CASE taskLock[k] = "monitor"
    <3>1. cur["monitor"] = k /\ pc["monitor"] \in Holding
      BY <1>1, <2>2, ThreadFacts, Zenon DEF WorkInv, HoldInv
    <3>2. pc["monitor"] \in Loop \cup {"idle", "wait", "schedule"}
      BY <1>1, Zenon DEF WorkInv, LoopInv
    <3>3. state[k] \in {"COMPLETED", "CANCELLED"}
      BY <1>1, <3>1, <3>2, ThreadFacts, Zenon DEF IInv, ThreadInv, StateOf, Holding, Loop
    <3>4. FetchDispatched => state[cur["dispatcher"]] = "PENDING"
      BY <1>1, ThreadFacts, Zenon DEF IInv, ThreadInv, StateOf, FetchDispatched
    <3>5. FetchDispatched => state'[k] = state[k]
      BY <1>1, <3>3, <3>4, Zenon DEF FetchDispatched, IInv, TaskTypeOK
    <3> QED
      BY <1>1, <3>3, <3>5, NextMoves, StatesMove, Zenon
  <2> QED
    BY <1>1, <2>1, <2>2, MutexMoves, Zenon DEF MutexMove, WorkInv
<1>2. IInv /\ WorkInv /\ [Next]_vars => [Current]_vars
  BY <1>1, Zenon
<1> QED
  BY Invariance, WorkInvariance, <1>2, PTL DEF Spec, TimeoutIsCurrent

(***************************************************************************)
(* The order in which an application's tasks start.  The dispatcher's      *)
(* choice stays right until it is acted on: a task created meanwhile is    *)
(* younger, and a task that waits has the priority it was created with.    *)
(***************************************************************************)
FirstOfItsApp(k) ==
  \A l \in 1..(k - 1) : state[l] = "PENDING" /\ App(l) = App(k) => prio[l] < prio[k]
OrderInv ==
  pc["dispatcher"] \in Slotted /\ state[cur["dispatcher"]] = "PENDING" =>
    FirstOfItsApp(cur["dispatcher"])

LEMMA SelectedIsFirst ==
  ASSUME IInv, NEW k \in Keys, SelectNextTask(k)
  PROVE  FirstOfItsApp(k)
<1> SUFFICES ASSUME NEW l \in 1..(k - 1), state[l] = "PENDING", App(l) = App(k)
             PROVE  prio[l] < prio[k]
  BY Zenon DEF FirstOfItsApp
<1>1. l \in Keys /\ k \in Int /\ l \in Int /\ l < k
  BY BoundsAssumption DEF Keys
<1>2. l \in PendingTasks
  BY <1>1, Zenon DEF IInv, TaskInv, Outstanding, PendingTasks
<1>3. l \in Selectable
  BY <1>2, Zenon DEF SelectNextTask, Selectable
<1>4. Precedes(k, l)
  BY <1>1, <1>3 DEF SelectNextTask
<1> QED
  BY <1>1, <1>4 DEF Precedes

LEMMA OrderKept ==
  ASSUME IInv, SlotInv, OrderInv, [Next]_vars
  PROVE  OrderInv'
<1> SUFFICES ASSUME pc'["dispatcher"] \in Slotted, state'[cur'["dispatcher"]] = "PENDING"
             PROVE  FirstOfItsApp(cur["dispatcher"])'
  BY Zenon DEF OrderInv
<1> DEFINE k == cur'["dispatcher"]
<1>1. TaskMove /\ DispatcherMove /\ PrioMove /\ IInv'
  BY NextMoves, PrioMoves, NextIInv, Zenon
<1>2. k \in Keys /\ "dispatcher" \in Threads
  BY <1>1, ThreadFacts, Zenon DEF IInv, ThreadInv, LockOf, Holding, Slotted
<1>3. ~FetchDispatched
  BY <1>2, Zenon DEF FetchDispatched, Goto, Slotted, IInv, ThreadTypeOK
<1>4. state[k] = "PENDING" /\ FirstOfItsApp(k)
  <2>1. CASE DispatchLoopSelects
    <3>1. SelectNextTask(k) /\ k \in PendingTasks
      BY <1>2, <2>1, Zenon DEF DispatchLoopSelects, IInv, ThreadTypeOK, Selectable
    <3> QED
      BY <1>2, <3>1, SelectedIsFirst, Zenon DEF PendingTasks
  <2>2. CASE pc["dispatcher"] \in Slotted /\ k = cur["dispatcher"]
    <3>1. state[k] # "ABSENT"
      BY <2>2, Zenon DEF SlotInv
    <3>2. state[k] = "PENDING"
      BY <1>1, <1>2, <1>3, <3>1, StatesMove, Zenon
    <3> QED
      BY <2>2, <3>2, Zenon DEF OrderInv
  <2> QED
    BY <1>1, <2>1, <2>2, Zenon DEF DispatcherMove
<1>5. ASSUME NEW l \in 1..k, state'[l] = "PENDING"
      PROVE  l \in Keys /\ state[l] = "PENDING" /\ prio'[l] = prio[l] /\ file'[l] = file[l]
  <2>1. l \in Keys /\ l <= k
    BY <1>2, BoundsAssumption DEF Keys
  <2>2. l < nextKey /\ nextKey \in Int
    <3>1. nextKey \in 1..(MaxKey + 1) /\ ~(nextKey <= k)
      BY <1>2, <1>4, Zenon DEF IInv, TaskInv, TaskTypeOK
    <3> QED
      BY <1>2, <2>1, <3>1, BoundsAssumption DEF Keys
  <2>3. state[l] # "ABSENT"
    <3>1. CASE \E t \in Clients, f \in Files, p \in Priorities : CreateHydrateTask(t, f, p)
      <4>1. l # nextKey
        BY <2>1, <2>2 DEF Keys
      <4>2. state' = [state EXCEPT ![nextKey] = "PENDING"]
        BY <3>1, Zenon DEF CreateHydrateTask
      <4> QED
        BY <1>5, <2>1, <4>1, <4>2, Zenon DEF IInv, TaskTypeOK
    <3>2. CASE \/ UNCHANGED <<state, file>>
               \/ \E j \in Keys : Ends(j, "COMPLETED") \/ Ends(j, "CANCELLED")
      BY <2>1, <3>2, <1>5, Zenon DEF Ends, IInv, TaskTypeOK
    <3> QED
      BY <1>1, <1>3, <3>1, <3>2, Zenon DEF TaskMove
  <2>4. state[l] = "PENDING" /\ file'[l] = file[l]
    BY <1>1, <1>3, <1>5, <2>1, <2>3, StatesMove, ActiveShrinks, Zenon
  <2>5. prio'[l] = prio[l]
    <3>1. CASE prio' = prio
      BY <3>1, Zenon
    <3>2. CASE \E t \in Clients, f \in Files, p \in Priorities : CreateHydrateTask(t, f, p)
      <4>1. \E p : prio' = [prio EXCEPT ![nextKey] = p]
        BY <3>2, Zenon DEF CreateHydrateTask
      <4>2. l # nextKey
        BY <2>1, <2>2
      <4> QED
        BY <2>1, <4>1, <4>2, Zenon DEF IInv, TaskTypeOK
    <3> QED
      BY <1>1, <3>1, <3>2, Zenon DEF PrioMove
  <2> QED
    BY <2>1, <2>4, <2>5, Zenon
<1>6. k \in 1..k
  BY <1>2, BoundsAssumption DEF Keys
<1>7. ASSUME NEW l \in 1..(k - 1), state'[l] = "PENDING", App(l)' = AppOf[file'[k]]
      PROVE  prio'[l] < prio'[k]
  <2>1. l \in 1..k
    BY <1>2, BoundsAssumption DEF Keys
  <2>2. state[l] = "PENDING" /\ App(l) = App(k)
    BY <1>4, <1>5, <1>6, <1>7, <2>1, Zenon DEF App
  <2> QED
    BY <1>4, <1>5, <1>6, <1>7, <2>1, <2>2, Zenon DEF FirstOfItsApp
<1> QED
  BY <1>7, Zenon DEF FirstOfItsApp, App

(* The tasks of an application start in the order of their priorities, and *)
(* of their creation within a priority, for any number of tasks: what      *)
(* SelectNextTaskLocked chose is still first when it is activated.         *)
THEOREM NoOvertakingThm == Spec => NoOvertaking
<1> DEFINE InOrder == \A k \in Keys : state[k] = "PENDING" /\ state'[k] = "IN_PROGRESS" =>
                        FirstOfItsApp(k)
<1>1. Init => OrderInv
  BY ThreadFacts, Zenon DEF Init, OrderInv, Slotted
<1>2. IInv /\ SlotInv /\ OrderInv /\ [Next]_vars => OrderInv'
  BY OrderKept, Zenon
<1>3. ASSUME IInv, OrderInv, [Next]_vars PROVE InOrder
  <2> SUFFICES ASSUME NEW k \in Keys, state[k] = "PENDING", state'[k] = "IN_PROGRESS"
               PROVE  FirstOfItsApp(k)
    OBVIOUS
  <2>1. FetchDispatched
    BY <1>3, NextMoves, StatesMove, Zenon
  <2>2. k = cur["dispatcher"] /\ pc["dispatcher"] = "sent"
    BY <1>3, <2>1, Zenon DEF FetchDispatched, IInv, TaskTypeOK
  <2> QED
    BY <1>3, <2>2, Zenon DEF OrderInv, Slotted
<1>4. IInv /\ OrderInv /\ [Next]_vars => [InOrder]_vars
  BY <1>3, Zenon
<1>5. InOrder <=> \A k \in Keys : state[k] = "PENDING" /\ state'[k] = "IN_PROGRESS" =>
                   \A l \in 1..(k - 1) :
                     state[l] = "PENDING" /\ App(l) = App(k) => prio[l] < prio[k]
  BY Zenon DEF FirstOfItsApp
<1> QED
  BY Invariance, SlotInvariance, <1>1, <1>2, <1>4, <1>5, PTL DEF Spec, NoOvertaking
=============================================================================
