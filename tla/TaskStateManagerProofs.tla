----------------------- MODULE TaskStateManagerProofs -----------------------
(* Machine-checked theorems about TaskStateManager, for any number of      *)
(* callers, bundles, task types and delayed tasks.                         *)
EXTENDS TaskStateManager, TLAPS

Inv == /\ TypeOK
       /\ IdleServiceIsReleased
       /\ EveryRecordHasAWorker
       /\ HandleIsLive

USE TimersAssumption

(* What OnStart leaves satisfies the invariant: the unload is queued and   *)
(* no bundle has a task.                                                   *)
LEMMA InitInv == Init => Inv
  BY DEF Init, Inv, TypeOK, IdleServiceIsReleased, EveryRecordHasAWorker,
         HandleIsLive, Idle

(* Every step of a caller or of the unload lambda preserves the types.     *)
LEMMA NextTypeOK == TypeOK /\ [Next]_vars => TypeOK'
<1> SUFFICES ASSUME TypeOK, [Next]_vars PROVE TypeOK'
  OBVIOUS
<1>1. ASSUME NEW c \in Callers, NEW b \in Bundles, NEW t \in TaskTypes,
             StartTask(c, b, t)
      PROVE  TypeOK'
  BY <1>1 DEF TypeOK, StartTask, CancelUnloadTask
<1>2. ASSUME NEW c \in Callers, RecordTask(c) PROVE TypeOK'
  <2>1. /\ job[c][1] \in Bundles
        /\ job[c][2] \in TaskTypes
    BY DEF TypeOK
  <2> QED BY <1>2, <2>1 DEF TypeOK, RecordTask
<1>3. ASSUME NEW c \in Callers, CompleteTask(c) PROVE TypeOK'
  BY <1>3 DEF TypeOK, CompleteTask, DelayUnloadTask, CancelUnloadTask
<1>4. ASSUME NEW c \in Callers, StartTaskNoArg(c) PROVE TypeOK'
  BY <1>4 DEF TypeOK, StartTaskNoArg, DelayUnloadTask, CancelUnloadTask
<1>5. ASSUME NEW c \in Callers, SubmitUnload(c) PROVE TypeOK'
  BY <1>5 DEF TypeOK, SubmitUnload
<1>6. ASSUME UnloadBegin \/ UnloadClearHandle \/ UnloadRequest PROVE TypeOK'
  BY <1>6 DEF TypeOK, UnloadBegin, UnloadClearHandle, UnloadRequest
<1>7. ASSUME UNCHANGED vars PROVE TypeOK'
  BY <1>7 DEF TypeOK, vars
<1> QED BY <1>1, <1>2, <1>3, <1>4, <1>5, <1>6, <1>7 DEF Next, CallerStep

(* Every step preserves the three safety invariants.                       *)
LEMMA NextInv == Inv /\ [Next]_vars => Inv'
<1> SUFFICES ASSUME Inv, [Next]_vars PROVE Inv'
  OBVIOUS
<1>0. TypeOK /\ TypeOK'
  BY NextTypeOK DEF Inv
<1> DEFINE P == IdleServiceIsReleased /\ EveryRecordHasAWorker /\ HandleIsLive
<1> USE DEF IdleServiceIsReleased, EveryRecordHasAWorker, HandleIsLive, Idle
<1>1. ASSUME NEW c \in Callers, NEW b \in Bundles, NEW t \in TaskTypes,
             StartTask(c, b, t)
      PROVE  P'
  BY <1>0, <1>1 DEF Inv, TypeOK, StartTask, CancelUnloadTask
<1>2. ASSUME NEW c \in Callers, RecordTask(c) PROVE P'
  <2>1. PICK b \in Bundles, t \in TaskTypes : job[c] = <<b, t>>
    BY <1>0 DEF TypeOK
  <2>2. /\ pc' = [pc EXCEPT ![c] = "working"] /\ job' = job
        /\ taskMaps' = [taskMaps EXCEPT ![b] = @ \cup {t}]
    BY <1>2, <2>1 DEF RecordTask
  <2>3. IdleServiceIsReleased'
    BY <1>0, <2>2 DEF TypeOK
  <2>4. EveryRecordHasAWorker'
    BY <1>0, <2>1, <2>2 DEF Inv, TypeOK
  <2>5. HandleIsLive'
    BY <1>2 DEF Inv, RecordTask
  <2> QED BY <2>3, <2>4, <2>5
<1>3. ASSUME NEW c \in Callers, CompleteTask(c) PROVE P'
  <2>1. PICK b \in Bundles, t \in TaskTypes : job[c] = <<b, t>>
    BY <1>0 DEF TypeOK
  <2>2. /\ job' = job
        /\ taskMaps' = [taskMaps EXCEPT ![b] = @ \ {t}]
        /\ pc' \in {[pc EXCEPT ![c] = "submit"], [pc EXCEPT ![c] = "idle"]}
        /\ pc' = [pc EXCEPT ![c] = "idle"] => ~ (\A a \in Bundles : taskMaps'[a] = {})
    BY <1>0, <1>3, <2>1 DEF TypeOK, CompleteTask, DelayUnloadTask
  <2>3. IdleServiceIsReleased'
    BY <1>0, <2>2 DEF TypeOK
  <2>4. EveryRecordHasAWorker'
    BY <1>0, <2>1, <2>2 DEF Inv, TypeOK
  <2>5. HandleIsLive'
    BY <1>0, <1>3 DEF Inv, TypeOK, CompleteTask, DelayUnloadTask, CancelUnloadTask
  <2> QED BY <2>3, <2>4, <2>5
<1>4. ASSUME NEW c \in Callers, StartTaskNoArg(c) PROVE P'
  BY <1>0, <1>4 DEF Inv, TypeOK, StartTaskNoArg, DelayUnloadTask, CancelUnloadTask
<1>5. ASSUME NEW c \in Callers, SubmitUnload(c) PROVE P'
  BY <1>0, <1>5 DEF Inv, TypeOK, SubmitUnload
<1>6. ASSUME UnloadBegin \/ UnloadClearHandle \/ UnloadRequest PROVE P'
  BY <1>0, <1>6 DEF Inv, TypeOK, UnloadBegin, UnloadClearHandle, UnloadRequest
<1>7. ASSUME UNCHANGED vars PROVE P'
  BY <1>7 DEF Inv, vars
<1>8. P'
  BY <1>1, <1>2, <1>3, <1>4, <1>5, <1>6, <1>7 DEF Next, CallerStep
<1> QED BY <1>0, <1>8 DEF Inv

(* All four invariants hold in every reachable state.                      *)
THEOREM InvHolds == Spec => []Inv
  BY InitInv, NextInv, PTL DEF Spec

(* The service is never left loaded without a queued, running or answered  *)
(* unload once its last task has completed.                                *)
THEOREM IdleServiceIsReleasedThm == Spec => []IdleServiceIsReleased
<1>1. Inv => IdleServiceIsReleased
  BY DEF Inv
<1> QED BY <1>1, InvHolds, PTL

(* A bit of taskMaps_ never outlives the task that set it.                 *)
THEOREM EveryRecordHasAWorkerThm == Spec => []EveryRecordHasAWorker
<1>1. Inv => EveryRecordHasAWorker
  BY DEF Inv
<1> QED BY <1>1, InvHolds, PTL

(* DelayUnloadTask drops the critical mark only on the path of             *)
(* CompleteTask that found the map empty.                                  *)
THEOREM CriticalDroppedOnlyWhenIdleThm == Spec => CriticalDroppedOnlyWhenIdle
<1>1. [Next]_vars => [criticalStatus /\ ~criticalStatus' => Idle']_vars
  BY DEF Next, CallerStep, StartTask, RecordTask, CompleteTask, DelayUnloadTask,
         StartTaskNoArg, SubmitUnload, UnloadBegin, UnloadClearHandle,
         UnloadRequest, Idle, vars
<1> QED BY <1>1, PTL DEF Spec, CriticalDroppedOnlyWhenIdle
=============================================================================
