-------------------------- MODULE TaskStateManager --------------------------
(***************************************************************************)
(* TaskStateManager of the cloud sync service: which bundles have running  *)
(* tasks, and the delayed task that unloads the system ability when none   *)
(* is left (frameworks/native/cloud_file_kit_inner/src/data_sync).         *)
(*                                                                         *)
(* Two mutexes matter.  taskMapsMutex_ covers the task map; it is held     *)
(* through a whole CompleteTask, so it is "held" here exactly while some   *)
(* caller is at "submit".  unloadTaskMutex_ covers the handle of the       *)
(* delayed task; every section under it is one step.  StartTask cancels    *)
(* the delayed task before it takes taskMapsMutex_, so it is two steps.    *)
(***************************************************************************)
EXTENDS Naturals

CONSTANTS Callers,     \* threads that start and complete tasks
          Bundles,     \* bundle names used as keys of taskMaps_
          TaskTypes,   \* bits of the task mask
          Timers       \* identities of submitted delayed tasks: a bound

ASSUME TimersAssumption == 0 \notin Timers

VARIABLES
  taskMaps,        \* taskMaps_: a bundle without an entry has the empty set
  criticalStatus,  \* criticalStatus_
  handle,          \* unloadTaskHandle_, 0 for nullptr
  queued,          \* delayed tasks the ffrt queue holds and has not begun
  running,         \* the delayed task the serial queue executes, 0 for none
  stage,           \* how far the running one is: "begun" or "cleared"
  unload,          \* "no", "failed" (samgr refused) or "done"
  pc,              \* per caller: "idle", "record", "working" or "submit"
  job              \* per caller: the <<bundle, type>> it works on

vars == <<taskMaps, criticalStatus, handle, queued, running, stage, unload,
          pc, job>>

Idle == \A b \in Bundles : taskMaps[b] = {}
MapLocked == \E c \in Callers : pc[c] = "submit"

(* The SA is loaded with criticalStatus_ = true and StartTask() called     *)
(* once by OnStart, which submits the first unload task.                   *)
Init ==
  /\ taskMaps = [b \in Bundles |-> {}]
  /\ criticalStatus = TRUE
  /\ handle \in Timers
  /\ queued = {handle}
  /\ running = 0
  /\ stage = "begun"
  /\ unload = "no"
  /\ pc = [c \in Callers |-> "idle"]
  /\ job \in [Callers -> Bundles \X TaskTypes]

(* Cancelling a task that already runs has no effect on it.                *)
CancelUnloadTask ==
  /\ queued' = queued \ {handle}
  /\ handle' = 0

-----------------------------------------------------------------------------
(* StartTask(bundleName, task), up to the lock of taskMapsMutex_.          *)
StartTask(c, b, t) ==
  /\ pc[c] = "idle"
  /\ job' = [job EXCEPT ![c] = <<b, t>>]
  /\ pc' = [pc EXCEPT ![c] = "record"]
  /\ CancelUnloadTask
  /\ UNCHANGED <<taskMaps, criticalStatus, running, stage, unload>>

(* The rest of StartTask; SetCritical may fail and is then tried again by  *)
(* the next StartTask.                                                     *)
RecordTask(c) ==
  /\ pc[c] = "record"
  /\ ~MapLocked
  /\ \/ criticalStatus' = TRUE
     \/ ~criticalStatus /\ criticalStatus' = FALSE
  /\ taskMaps' = [taskMaps EXCEPT ![job[c][1]] = @ \cup {job[c][2]}]
  /\ pc' = [pc EXCEPT ![c] = "working"]
  /\ UNCHANGED <<handle, queued, running, stage, unload, job>>

(* DelayUnloadTask up to its own submission. A high temperature parameter  *)
(* keeps the critical mark, and so does a SetCritical that fails.          *)
DelayUnloadTask(c, needSetCritical) ==
  /\ \/ criticalStatus' = criticalStatus
     \/ needSetCritical /\ criticalStatus' = FALSE
  /\ CancelUnloadTask
  /\ pc' = [pc EXCEPT ![c] = "submit"]

(* Faulty CompleteTask: looks for an empty map before it clears the bit.   *)
CompleteTaskChecksFirst(c) ==
  /\ pc[c] = "working"
  /\ ~MapLocked
  /\ taskMaps' = [taskMaps EXCEPT ![job[c][1]] = @ \ {job[c][2]}]
  /\ IF Idle
     THEN DelayUnloadTask(c, TRUE)
     ELSE /\ pc' = [pc EXCEPT ![c] = "idle"]
          /\ UNCHANGED <<criticalStatus, handle, queued>>
  /\ UNCHANGED <<running, stage, unload, job>>

(* Faulty CompleteTask: leaves the bit of the finished task set.           *)
CompleteTaskKeepsBit(c) ==
  /\ pc[c] = "working"
  /\ ~MapLocked
  /\ pc' = [pc EXCEPT ![c] = "idle"]
  /\ UNCHANGED <<taskMaps, criticalStatus, handle, queued, running, stage, unload, job>>

CompleteTask(c) ==
  LET b == job[c][1]
      t == job[c][2]
  IN /\ pc[c] = "working"
     /\ ~MapLocked
     /\ taskMaps' = [taskMaps EXCEPT ![b] = @ \ {t}]
     /\ IF \A a \in Bundles : taskMaps'[a] = {}
        THEN DelayUnloadTask(c, TRUE)
        ELSE /\ pc' = [pc EXCEPT ![c] = "idle"]
             /\ UNCHANGED <<criticalStatus, handle, queued>>
     /\ UNCHANGED <<running, stage, unload, job>>

(* StartTask() without arguments: OnStart, OnActive, a thermal level       *)
(* change.                                                                 *)
StartTaskNoArg(c) ==
  /\ pc[c] = "idle"
  /\ ~MapLocked
  /\ Idle
  /\ DelayUnloadTask(c, FALSE)
  /\ UNCHANGED <<taskMaps, running, stage, unload, job>>

(* The tail of DelayUnloadTask: submit_h and the store of the new handle.  *)
SubmitUnload(c) ==
  /\ pc[c] = "submit"
  /\ \E n \in Timers \ (queued \cup {running}) :
       /\ queued' = queued \cup {n}
       /\ handle' = n
  /\ pc' = [pc EXCEPT ![c] = "idle"]
  /\ UNCHANGED <<taskMaps, criticalStatus, running, stage, unload, job>>

-----------------------------------------------------------------------------
(* The delay of a submitted task is over and the serial queue begins it.   *)
UnloadBegin ==
  /\ running = 0
  /\ \E n \in queued : running' = n /\ queued' = queued \ {n}
  /\ stage' = "begun"
  /\ UNCHANGED <<taskMaps, criticalStatus, handle, unload, pc, job>>

(* The lambda clears the handle, whichever task the handle names by now.   *)
UnloadClearHandle ==
  /\ running # 0
  /\ stage = "begun"
  /\ handle' = 0
  /\ stage' = "cleared"
  /\ UNCHANGED <<taskMaps, criticalStatus, queued, running, unload, pc, job>>

(* The lambda asks samgr to unload the SA; neither outcome is retried.     *)
UnloadRequest ==
  /\ running # 0
  /\ stage = "cleared"
  /\ running' = 0
  /\ unload' \in {"done", "failed"}
  /\ UNCHANGED <<taskMaps, criticalStatus, handle, queued, stage, pc, job>>

-----------------------------------------------------------------------------
CallerStep(c) ==
  \/ \E b \in Bundles, t \in TaskTypes : StartTask(c, b, t)
  \/ RecordTask(c)
  \/ CompleteTask(c)
  \/ StartTaskNoArg(c)
  \/ SubmitUnload(c)

Next ==
  /\ unload # "done"
  /\ \/ \E c \in Callers : CallerStep(c)
     \/ UnloadBegin
     \/ UnloadClearHandle
     \/ UnloadRequest

(* A caller inside StartTask or CompleteTask goes on, a task ends, and the *)
(* delayed task the queue holds is eventually run.                         *)
Fairness ==
  /\ \A c \in Callers :
       WF_vars(unload # "done" /\ (RecordTask(c) \/ CompleteTask(c) \/ SubmitUnload(c)))
  /\ WF_vars(unload # "done" /\ (UnloadBegin \/ UnloadClearHandle \/ UnloadRequest))

Spec == Init /\ [][Next]_vars
FairSpec == Spec /\ Fairness

-----------------------------------------------------------------------------
TypeOK ==
  /\ taskMaps \in [Bundles -> SUBSET TaskTypes]
  /\ criticalStatus \in BOOLEAN
  /\ handle \in Timers \cup {0}
  /\ queued \subseteq Timers
  /\ running \in Timers \cup {0}
  /\ stage \in {"begun", "cleared"}
  /\ unload \in {"no", "failed", "done"}
  /\ pc \in [Callers -> {"idle", "record", "working", "submit"}]
  /\ job \in [Callers -> Bundles \X TaskTypes]

(* The service cannot be forgotten: when no task is recorded and no caller *)
(* is inside StartTask or CompleteTask, an unload is queued, under way or  *)
(* was already answered by samgr.                                          *)
IdleServiceIsReleased ==
  Idle /\ (\A c \in Callers : pc[c] \in {"idle", "working"})
    => queued # {} \/ running # 0 \/ unload # "no"

(* No record outlives its task: a set bit of taskMaps_ belongs to a caller *)
(* that is still working, so a leaked bit never keeps the SA loaded.       *)
EveryRecordHasAWorker ==
  \A b \in Bundles : \A t \in taskMaps[b] :
    \E c \in Callers : pc[c] = "working" /\ job[c] = <<b, t>>

(* unloadTaskHandle_ never dangles: it is null or names a task that is     *)
(* queued or was just begun, so CancelUnloadTask never cancels a past one. *)
HandleIsLive ==
  handle # 0 => handle \in queued \/ (handle = running /\ stage = "begun")

(* The critical mark that protects the process from being reclaimed is     *)
(* only dropped by a completion that leaves no task recorded.              *)
CriticalDroppedOnlyWhenIdle ==
  [][criticalStatus /\ ~criticalStatus' => Idle']_vars

(* If all callers stay idle from some point on, the service asks samgr to  *)
(* unload it.                                                              *)
IdleServiceEventuallyUnloads ==
  <>[](\A c \in Callers : pc[c] = "idle") => <>(unload # "no")
=============================================================================
