----------------------------- MODULE FuseController -----------------------------
(***************************************************************************)
(* The FUSE session of the cloud disk service and its worker thread.       *)
(*   services/clouddiskservice/fuse/src/cloud_disk_fuse_controller.cpp     *)
(*                                                                         *)
(* Every critical section of mutex_ is one step, and so is every call to   *)
(* the mount adapter.  lifecycleMutex_ is held by StartUser, AddRoot,      *)
(* RemoveRoot and Stop from their beginning to their end: api is the one   *)
(* call that holds it.  The waits of the worker that re-evaluate nothing   *)
(* but their predicate (prepblocked, resetblocked) are told apart from the *)
(* ones that also look at the deadlines.                                   *)
(***************************************************************************)
EXTENDS Integers, FiniteSets

CONSTANTS
    Users,
    Roots,        \* sync folder indexes
    Ops,          \* the calls that are made: "start", "add", "remove", "stop", "exit"
    MaxOps,       \* bound on the number of calls
    MaxFaults     \* bound on the number of failures of the mount adapter, of
                  \* the session and of warm-ups

NoUser == "nouser"

ASSUME UsersAssumption == NoUser \notin Users
ASSUME RootsAssumption == IsFiniteSet(Roots)

VARIABLES
    state,        \* state_
    user,         \* activeUserId_
    started, shutdown,
    roots,        \* roots_: [index -> [st, epoch, tasks, over]]; over: the grace
                  \* period of a retiring root is over
    epoch,        \* rootWarmupEpoch_
    session,      \* session_ and its loop: "none", "starting", "running"
    loop,         \* the user of the session whose loopThread_ is still to be joined
    loopExited,
    pending,      \* pendingUnmounts_, as the set of its users
    warm,         \* warm-up tasks that run, [user, root, epoch]
    pendingWarm,  \* pendingWarmupCount_
    worker,       \* the worker thread and its local variables
    api,          \* the call that holds lifecycleMutex_
    ops, faults,
    mounted,      \* users whose mount point is mounted
    announced     \* how often idleCallback_ was dispatched, modulo 2

vars == <<state, user, started, shutdown, roots, epoch, session, loop, loopExited,
          pending, warm, pendingWarm, worker, api, ops, faults, mounted, announced>>

States == {"IDLE", "MOUNTING", "READY", "DRAINING", "CLEANUP_RETRY", "STOPPING"}
MountRetryCount == 3

UnmountRetryCount == 3

NoApi == [pc |-> "idle", op |-> "none", user |-> NoUser, todo |-> {}]
NoWorker == [pc |-> "none", next |-> "none", user |-> NoUser, ok |-> TRUE,
             n |-> 0, m |-> 0, epoch |-> 0, reset |-> FALSE]

Init ==
    /\ state = "IDLE" /\ user = NoUser /\ started = FALSE /\ shutdown = FALSE
    /\ roots = << >> /\ epoch = 0
    /\ session = "none" /\ loop = NoUser /\ loopExited = FALSE
    /\ pending = {} /\ warm = {} /\ pendingWarm = 0
    /\ worker = NoWorker /\ api = NoApi
    /\ ops = 0 /\ faults = 0 /\ mounted = {} /\ announced = 0

-----------------------------------------------------------------------------
HasActiveRoot == \E r \in DOMAIN roots : roots[r].st # "RETIRING"

IsIdle ==
    /\ roots = << >> /\ pending = {} /\ session = "none" /\ pendingWarm = 0
    /\ state = "IDLE"

(* A retiring root contributes a deadline once its warm-ups are done.      *)
HasDeadline == \E r \in DOMAIN roots : roots[r].st = "RETIRING" /\ roots[r].tasks = 0

Expired(r) == roots[r].st = "RETIRING" /\ roots[r].tasks = 0 /\ roots[r].over

DeadlineOver == \E r \in DOMAIN roots : Expired(r)

IsWarmupCurrent(u, r, e) ==
    /\ ~shutdown /\ user = u /\ r \in DOMAIN roots
    /\ roots[r].epoch = e /\ roots[r].st = "WARMING"

AfterCleanup(p) == IF p = {} THEN "IDLE" ELSE "CLEANUP_RETRY"

(* DispatchIdleCallback: when b, in the step that makes the controller     *)
(* idle.                                                                   *)
Announce(b) == announced' = IF b THEN 1 - announced ELSE announced

Fault == faults < MaxFaults /\ faults' = faults + 1

ApiUnchanged == UNCHANGED <<api, ops, user, started, shutdown, epoch, warm, pendingWarm>>

-----------------------------------------------------------------------------
(* Calls.                                                                  *)
Begin(op) == api.pc = "idle" /\ op \in Ops /\ ops < MaxOps /\ ops' = ops + 1

(* StopLocked, up to the join.                                             *)
StopLocked(op, u) ==
    IF ~started
    THEN /\ pending' = IF op = "exit" THEN {} ELSE pending
         /\ mounted' = IF op = "exit" THEN mounted \ pending ELSE mounted
         /\ state' = IF op = "exit" /\ pending # {} THEN "IDLE" ELSE state
         /\ api' = IF op = "start" THEN [NoApi EXCEPT !.pc = "begin", !.op = op, !.user = u]
                   ELSE NoApi
         /\ UNCHANGED <<shutdown, roots>>
    ELSE /\ shutdown' = TRUE
         /\ roots' = << >>
         /\ state' = "STOPPING"
         /\ api' = [NoApi EXCEPT !.pc = "join", !.op = op, !.user = u]
         /\ UNCHANGED <<pending, mounted>>

StartUser(u) ==
    /\ Begin("start") /\ StopLocked("start", u)
    /\ UNCHANGED <<user, started, epoch, session, loop, loopExited, warm, pendingWarm,
                   worker, faults, announced>>

Stop ==
    /\ Begin("stop") /\ StopLocked("stop", NoUser)
    /\ UNCHANGED <<user, started, epoch, session, loop, loopExited, warm, pendingWarm,
                   worker, faults, announced>>

(* The mounts whose clean-up is given up when the service exits leave      *)
(* mounted: nobody is responsible for them any more.                       *)
StopForServiceExit ==
    /\ Begin("exit") /\ StopLocked("exit", NoUser)
    /\ UNCHANGED <<user, started, epoch, session, loop, loopExited, warm, pendingWarm,
                   worker, faults, announced>>

(* workerThread_.join().                                                   *)
Join ==
    /\ api.pc = "join" /\ worker.pc = "none"
    /\ api' = [api EXCEPT !.pc = "drain"]
    /\ UNCHANGED <<state, user, started, shutdown, roots, epoch, session, loop, loopExited,
                   pending, warm, pendingWarm, worker, ops, faults, mounted, announced>>

WarmupsDone == pendingWarm = 0

Drain ==
    /\ api.pc = "drain" /\ WarmupsDone
    /\ pending' = IF api.op = "exit" THEN {} ELSE pending
    /\ mounted' = IF api.op = "exit" THEN mounted \ pending ELSE mounted
    /\ state' = AfterCleanup(pending')
    /\ user' = NoUser /\ started' = FALSE /\ shutdown' = FALSE /\ session' = "none"
    /\ api' = IF api.op = "start" THEN [api EXCEPT !.pc = "begin"] ELSE NoApi
    /\ UNCHANGED <<roots, epoch, loop, loopExited, warm, pendingWarm, worker, ops, faults,
                   announced>>

(* StartUserLocked after StopLocked: rs are the roots whose path exists.   *)
StartUserLocked ==
    /\ api.pc = "begin"
    /\ \E rs \in SUBSET Roots :
         \E num \in [rs -> 1..Cardinality(rs)] :
           /\ \A r1, r2 \in rs : r1 # r2 => num[r1] # num[r2]
           /\ roots' = [r \in rs |-> [st |-> "WARMING", epoch |-> epoch + num[r],
                                      tasks |-> 0, over |-> FALSE]]
           /\ epoch' = epoch + Cardinality(rs)
           /\ api' = [api EXCEPT !.pc = "schedule", !.todo = rs]
    /\ user' = api.user /\ shutdown' = FALSE /\ started' = TRUE
    /\ state' = AfterCleanup(pending)
    /\ worker' = [NoWorker EXCEPT !.pc = "check"]
    /\ UNCHANGED <<session, loop, loopExited, pending, warm, pendingWarm, ops, faults,
                   mounted, announced>>

(* ScheduleRootWarmup, BeginRootWarmup.                                    *)
Schedule ==
    /\ api.pc = "schedule"
    /\ \/ /\ api.todo = {}
          /\ api' = NoApi
          /\ UNCHANGED <<roots, warm, pendingWarm>>
       \/ \E r \in api.todo :
            /\ api' = [api EXCEPT !.todo = @ \ {r}]
            /\ IF IsWarmupCurrent(api.user, r, roots[r].epoch)
               THEN /\ roots' = [roots EXCEPT ![r].tasks = @ + 1]
                    /\ warm' = warm \cup {[user |-> api.user, root |-> r,
                                           epoch |-> roots[r].epoch]}
                    /\ pendingWarm' = pendingWarm + 1
               ELSE UNCHANGED <<roots, warm, pendingWarm>>
    /\ UNCHANGED <<state, user, started, shutdown, epoch, session, loop, loopExited,
                   pending, worker, ops, faults, mounted, announced>>

CarriedTasks(r) == IF r \in DOMAIN roots THEN roots[r].tasks ELSE 0

AddRoot(u, r) ==
    /\ Begin("add")
    /\ IF started /\ user = u /\ ~shutdown
       THEN /\ roots' = [x \in DOMAIN roots \cup {r} |->
                           IF x = r THEN [st |-> "WARMING", epoch |-> epoch + 1,
                                          tasks |-> CarriedTasks(r), over |-> FALSE]
                           ELSE roots[x]]
            /\ epoch' = epoch + 1
            /\ api' = [pc |-> "schedule", op |-> "add", user |-> u, todo |-> {r}]
       ELSE UNCHANGED <<roots, epoch, api>>
    /\ UNCHANGED <<state, user, started, shutdown, session, loop, loopExited, pending, warm,
                   pendingWarm, worker, faults, mounted, announced>>

RemoveRoot(u, r) ==
    /\ Begin("remove")
    /\ IF user = u /\ r \in DOMAIN roots /\ roots[r].st # "RETIRING"
       THEN /\ roots' = [roots EXCEPT ![r].st = "RETIRING", ![r].epoch = epoch + 1,
                                      ![r].over = FALSE]
            /\ epoch' = epoch + 1
            /\ api' = [pc |-> "waitwarm", op |-> "remove", user |-> u, todo |-> {r}]
       ELSE UNCHANGED <<roots, epoch, api>>
    /\ UNCHANGED <<state, user, started, shutdown, session, loop, loopExited, pending, warm,
                   pendingWarm, worker, faults, mounted, announced>>

RemoveWaits ==
    /\ api.pc = "waitwarm"
    /\ \A r \in api.todo : r \in DOMAIN roots => roots[r].tasks = 0
    /\ api' = NoApi
    /\ UNCHANGED <<state, user, started, shutdown, roots, epoch, session, loop, loopExited,
                   pending, warm, pendingWarm, worker, ops, faults, mounted, announced>>

TasksAfter(t) == roots[t.root].tasks - 1

(* RunRootWarmup, FinishRootWarmup: ok is the result of WarmupSyncFolder.  *)
FinishRootWarmup(t, ok) ==
    /\ t \in warm
    /\ IF ok THEN UNCHANGED faults ELSE Fault
    /\ warm' = warm \ {t}
    /\ roots' = IF t.root \in DOMAIN roots /\ roots[t.root].tasks > 0
                THEN [roots EXCEPT
                        ![t.root].tasks = TasksAfter(t),
                        ![t.root].st = IF user = t.user /\ roots[t.root].epoch = t.epoch
                                          /\ @ = "WARMING" /\ ok
                                       THEN "READY" ELSE @]
                ELSE roots
    /\ pendingWarm' = IF pendingWarm > 0 THEN pendingWarm - 1 ELSE 0
    /\ UNCHANGED <<state, user, started, shutdown, epoch, session, loop, loopExited,
                   pending, worker, api, ops, mounted>>
    /\ Announce(~shutdown /\ IsIdle')

(* The grace period of a retired root passes.                              *)
GracePasses(r) ==
    /\ r \in DOMAIN roots /\ roots[r].st = "RETIRING" /\ ~roots[r].over
    /\ roots' = [roots EXCEPT ![r].over = TRUE]
    /\ UNCHANGED <<state, user, started, shutdown, epoch, session, loop, loopExited, pending,
                   warm, pendingWarm, worker, api, ops, faults, mounted, announced>>

-----------------------------------------------------------------------------
(* The worker thread.                                                      *)
Go(l) == worker' = [worker EXCEPT !.pc = l]
At(l) == worker.pc = l

(* ShouldStopWorker.                                                       *)
Check ==
    /\ At("check")
    /\ IF shutdown /\ session = "none" THEN Go("end")
       ELSE worker' = [worker EXCEPT !.pc = "finalize", !.next = "select"]
    /\ UNCHANGED <<state, roots, session, loop, loopExited, pending, faults, mounted, announced>>
    /\ ApiUnchanged

FinalizeRetiredRoots ==
    LET gone == {r \in DOMAIN roots : Expired(r)}
        empty == gone # {} /\ gone = DOMAIN roots
    IN /\ At("finalize")
       /\ roots' = [r \in DOMAIN roots \ gone |-> roots[r]]
       /\ state' = IF empty /\ session # "none" THEN "DRAINING"
                   ELSE IF empty /\ ~shutdown THEN AfterCleanup(pending)
                   ELSE state
       /\ Go(worker.next)
       /\ UNCHANGED <<session, loop, loopExited, pending, faults, mounted>>
       /\ ApiUnchanged
       /\ Announce(empty /\ session = "none" /\ ~shutdown /\ IsIdle')

SelectPendingUnmount ==
    LET orphan == session = "none" /\ roots # << >> /\ user \in pending
        needsStop == session # "none" /\ (roots = << >> \/ loopExited \/ state = "DRAINING")
        needsMount == session = "none" /\ roots # << >> /\ ~orphan
        alongside == session = "none" \/ state = "READY"
    IN /\ At("select")
       /\ IF shutdown \/ pending = {} \/ needsStop \/ needsMount \/ ~alongside
          THEN Go("active") /\ UNCHANGED state
          ELSE /\ \E u \in IF orphan THEN {user} ELSE pending :
                    worker' = [worker EXCEPT !.pc = "unmount", !.next = "check", !.user = u]
               /\ state' = IF session = "none" THEN "CLEANUP_RETRY" ELSE state
       /\ UNCHANGED <<roots, session, loop, loopExited, pending, faults, mounted, announced>>
       /\ ApiUnchanged

(* CloudDiskFuseMountAdapter::Unmount.                                     *)
Unmount(u, l) ==
    \/ /\ mounted' = mounted \ {u}
       /\ worker' = [worker EXCEPT !.pc = l, !.ok = TRUE, !.n = 0]
       /\ UNCHANGED faults
    \/ /\ Fault
       /\ worker' = [worker EXCEPT !.pc = l, !.ok = FALSE, !.n = 0]
       /\ UNCHANGED mounted

UnmountTarget ==
    /\ At("unmount")
    /\ Unmount(worker.user, "retry")
    /\ UNCHANGED <<state, roots, session, loop, loopExited, pending, announced>>
    /\ ApiUnchanged

HasActiveSession ==
    /\ At("active")
    /\ Go(IF session # "none" THEN "wait" ELSE "prepare")
    /\ UNCHANGED <<state, roots, session, loop, loopExited, pending, faults, mounted, announced>>
    /\ ApiUnchanged

(* HandleActiveSession, WaitForSessionStop: a plain wait that looks at the *)
(* deadlines again after every notification.                               *)
WaitForSessionStop ==
    /\ At("wait")
    /\ shutdown \/ roots = << >> \/ loopExited \/ state = "DRAINING" \/ DeadlineOver
    /\ worker' = [worker EXCEPT !.pc = "finalize", !.next = "stop"]
    /\ UNCHANGED <<state, roots, session, loop, loopExited, pending, faults, mounted, announced>>
    /\ ApiUnchanged

HandleActiveSession ==
    /\ At("stop")
    /\ IF ~shutdown /\ roots # << >> /\ ~loopExited /\ state # "DRAINING"
       THEN worker' = [worker EXCEPT !.pc = "check", !.m = 0] /\ UNCHANGED state
       ELSE /\ state' = IF shutdown THEN "STOPPING" ELSE "DRAINING"
            /\ worker' = [worker EXCEPT !.pc = "exit", !.user = user]
    /\ UNCHANGED <<roots, session, loop, loopExited, pending, faults, mounted, announced>>
    /\ ApiUnchanged

(* StopSession: fuse_session_exit, WakeSession, Unmount ...                *)
StopSession ==
    /\ At("exit")
    /\ Unmount(worker.user, "joinloop")
    /\ UNCHANGED <<state, roots, session, loop, loopExited, pending, announced>>
    /\ ApiUnchanged

(* ... and, when the loop thread has ended, the end of the session.        *)
EndSession ==
    /\ At("joinloop")
    /\ session' = "none" /\ loop' = NoUser /\ loopExited' = FALSE
    /\ state' = IF worker.ok THEN "IDLE" ELSE "CLEANUP_RETRY"
    /\ worker' = [worker EXCEPT !.pc = "retry", !.next = "stopped", !.n = 0]
    /\ UNCHANGED <<roots, pending, faults, mounted>>
    /\ ApiUnchanged
    /\ Announce(~shutdown /\ IsIdle')

(* The end of HandleActiveSession, after RetryUnmount.                     *)
Stopped ==
    /\ At("stopped")
    /\ worker' = IF shutdown THEN [worker EXCEPT !.pc = "end"]
                 ELSE [worker EXCEPT !.pc = "check", !.m = 0]
    /\ UNCHANGED <<state, roots, session, loop, loopExited, pending, faults, mounted, announced>>
    /\ ApiUnchanged

(* PrepareMountAttempt.                                                    *)
PrepareMountAttempt ==
    /\ At("prepare")
    /\ IF shutdown THEN Go("end") /\ UNCHANGED <<state, loopExited>>
       ELSE IF HasActiveRoot
            THEN /\ state' = "MOUNTING" /\ loopExited' = FALSE
                 /\ worker' = [worker EXCEPT !.pc = "mount", !.user = user]
            ELSE /\ Go(IF HasDeadline THEN "preptimed" ELSE "prepblocked")
                 /\ UNCHANGED <<state, loopExited>>
    /\ UNCHANGED <<roots, session, loop, pending, faults, mounted, announced>>
    /\ ApiUnchanged

WakesForRoots == HasActiveRoot

WakesForShutdown == shutdown

PrepareWakes == shutdown \/ HasActiveRoot

PrepareBlocked ==
    /\ At("prepblocked") /\ PrepareWakes
    /\ Go("prepare")
    /\ UNCHANGED <<state, roots, session, loop, loopExited, pending, faults, mounted, announced>>
    /\ ApiUnchanged

PrepareTimed ==
    /\ At("preptimed")
    /\ \/ PrepareWakes /\ Go("prepare")
       \/ /\ ~PrepareWakes /\ DeadlineOver
          /\ worker' = [worker EXCEPT !.pc = "finalize", !.next = "prepare"]
    /\ UNCHANGED <<state, roots, session, loop, loopExited, pending, faults, mounted, announced>>
    /\ ApiUnchanged

(* MountSession: a mount point that is still mounted is busy.              *)
MountSession ==
    /\ At("mount")
    /\ \/ /\ worker.user \notin mounted
          /\ mounted' = mounted \cup {worker.user}
          /\ Go("create") /\ UNCHANGED faults
       \/ /\ worker.user \notin mounted
          /\ Fault /\ Go("mretry") /\ UNCHANGED mounted
       \/ /\ worker.user \in mounted
          /\ worker' = [worker EXCEPT !.pc = "unmount", !.next = "mretry"]
          /\ UNCHANGED <<mounted, faults>>
    /\ UNCHANGED <<state, roots, session, loop, loopExited, pending, announced>>
    /\ ApiUnchanged

CreateSession ==
    /\ At("create")
    /\ \/ /\ ~shutdown /\ HasActiveRoot /\ loop = NoUser
          /\ session' = "starting" /\ loop' = worker.user /\ loopExited' = FALSE
          /\ worker' = [worker EXCEPT !.pc = "check", !.m = 0]
          /\ UNCHANGED faults
       \/ /\ IF shutdown \/ ~HasActiveRoot THEN UNCHANGED faults ELSE Fault
          /\ worker' = [worker EXCEPT !.pc = "unmount", !.next = "mretry"]
          /\ UNCHANGED <<session, loop, loopExited>>
    /\ UNCHANGED <<state, roots, pending, mounted, announced>>
    /\ ApiUnchanged

(* The assignment to a loopThread_ that was never joined terminates the    *)
(* process.  The next one begins as in Init; what the storage manager does *)
(* with the mounts of the process that ended is not followed.              *)
Terminate ==
    /\ At("create") /\ ~shutdown /\ HasActiveRoot /\ loop # NoUser
    /\ state' = "IDLE" /\ user' = NoUser /\ started' = FALSE /\ shutdown' = FALSE
    /\ roots' = << >> /\ epoch' = 0
    /\ session' = "none" /\ loop' = NoUser /\ loopExited' = FALSE
    /\ pending' = {} /\ warm' = {} /\ pendingWarm' = 0
    /\ worker' = NoWorker /\ api' = NoApi /\ mounted' = {} /\ announced' = 0
    /\ UNCHANGED <<ops, faults>>

WaitForMountRetry ==
    /\ At("mretry")
    /\ state' = IF shutdown THEN state ELSE "IDLE"
    /\ worker' = IF shutdown THEN [worker EXCEPT !.pc = "end"]
                 ELSE IF ~HasActiveRoot THEN [worker EXCEPT !.pc = "check", !.m = 0]
                 ELSE IF worker.m >= MountRetryCount
                 THEN [worker EXCEPT !.pc = "reset", !.next = "check", !.m = 0,
                                     !.epoch = epoch, !.reset = TRUE]
                 ELSE [worker EXCEPT !.pc = "mwait", !.m = @ + 1]
    /\ UNCHANGED <<roots, session, loop, loopExited, pending, faults, mounted>>
    /\ ApiUnchanged
    /\ Announce(~shutdown /\ ~HasActiveRoot /\ IsIdle')

MountRetryInterval ==
    /\ At("mwait")
    /\ worker' = [worker EXCEPT !.pc = "check", !.m = IF HasActiveRoot THEN @ ELSE 0]
    /\ UNCHANGED <<state, roots, session, loop, loopExited, pending, faults, mounted, announced>>
    /\ ApiUnchanged

ShouldReset ==
    shutdown \/ epoch # worker.epoch \/ (worker.reset /\ ~HasActiveRoot)

(* WaitForRetryReset.                                                      *)
WaitForRetryReset ==
    /\ At("reset")
    /\ Go(IF shutdown THEN "end"
          ELSE IF ShouldReset THEN worker.next
          ELSE IF HasDeadline THEN "resettimed" ELSE "resetblocked")
    /\ UNCHANGED <<state, roots, session, loop, loopExited, pending, faults, mounted, announced>>
    /\ ApiUnchanged

ResetBlocked ==
    /\ At("resetblocked") /\ ShouldReset
    /\ Go("reset")
    /\ UNCHANGED <<state, roots, session, loop, loopExited, pending, faults, mounted, announced>>
    /\ ApiUnchanged

(* The timeout of the wait: FinalizeRetiredRoots, then the loop again.     *)
ResetTimed ==
    LET gone == {r \in DOMAIN roots : Expired(r)}
        empty == gone = DOMAIN roots
    IN /\ At("resettimed")
       /\ Go("reset")
       /\ UNCHANGED <<session, loop, loopExited, pending, faults, mounted>>
       /\ ApiUnchanged
       /\ \/ ShouldReset /\ UNCHANGED <<roots, state, announced>>
          \/ /\ ~ShouldReset /\ DeadlineOver
             /\ roots' = [r \in DOMAIN roots \ gone |-> roots[r]]
             /\ state' = IF empty /\ session # "none" THEN "DRAINING"
                         ELSE IF empty THEN AfterCleanup(pending) ELSE state
             /\ Announce(empty /\ IsIdle')

(* RetryUnmountWithLimit, one round up to its wait ...                     *)
RetryUnmountWithLimit ==
    /\ At("retry")
    /\ IF worker.ok \/ worker.n >= UnmountRetryCount
       THEN Go("conclude") /\ UNCHANGED state
       ELSE /\ state' = IF shutdown THEN "STOPPING" ELSE "CLEANUP_RETRY"
            /\ worker' = IF shutdown THEN [worker EXCEPT !.pc = "conclude"]
                         ELSE [worker EXCEPT !.pc = "uwait", !.n = @ + 1]
    /\ UNCHANGED <<roots, session, loop, loopExited, pending, faults, mounted, announced>>
    /\ ApiUnchanged

(* ... and after it.                                                       *)
UnmountRetryInterval ==
    /\ At("uwait")
    /\ \/ shutdown /\ Go("conclude") /\ UNCHANGED <<mounted, faults>>
       \/ /\ ~shutdown
          /\ \/ /\ mounted' = mounted \ {worker.user}
                /\ worker' = [worker EXCEPT !.pc = "retry", !.ok = TRUE]
                /\ UNCHANGED faults
             \/ Fault /\ Go("retry") /\ UNCHANGED mounted
    /\ UNCHANGED <<state, roots, session, loop, loopExited, pending, announced>>
    /\ ApiUnchanged

ForgetFailedUnmount(p, u) == p

PendingAfterFailure(p, u) == p \cup {u}

(* RetryUnmount: a failed unmount is remembered.                           *)
RetryUnmount ==
    /\ At("conclude")
    /\ UNCHANGED <<roots, session, loop, loopExited, faults, mounted>>
    /\ ApiUnchanged
    /\ IF worker.ok
       THEN /\ pending' = pending \ {worker.user}
            /\ state' = IF shutdown THEN state ELSE AfterCleanup(pending')
            /\ Announce(IsIdle')
            /\ Go(worker.next)
       ELSE /\ pending' = PendingAfterFailure(pending, worker.user)
            /\ state' = IF shutdown THEN "STOPPING" ELSE "CLEANUP_RETRY"
            /\ UNCHANGED announced
            /\ worker' = IF shutdown THEN [worker EXCEPT !.pc = "end"]
                         ELSE [worker EXCEPT !.pc = "reset", !.epoch = epoch, !.reset = FALSE]

(* The end of WorkerMain.                                                  *)
WorkerEnds ==
    /\ At("end")
    /\ state' = AfterCleanup(pending)
    /\ worker' = NoWorker
    /\ UNCHANGED <<roots, session, loop, loopExited, pending, faults, mounted, announced>>
    /\ ApiUnchanged

-----------------------------------------------------------------------------
AfterInit == IF state = "MOUNTING" /\ HasActiveRoot /\ ~shutdown THEN "READY" ELSE state

(* The loop thread: Init answers the kernel's first message ...            *)
FuseInit ==
    /\ session = "starting" /\ ~loopExited
    /\ session' = "running"
    /\ state' = AfterInit
    /\ UNCHANGED <<roots, loop, loopExited, pending, worker, faults, mounted, announced>>
    /\ ApiUnchanged

(* ... and LoopMain may end by itself.                                     *)
LoopExits ==
    /\ session # "none" /\ ~loopExited
    /\ Fault
    /\ loopExited' = TRUE
    /\ UNCHANGED <<state, roots, session, loop, pending, worker, mounted, announced>>
    /\ ApiUnchanged

ApiStep == Join \/ Drain \/ StartUserLocked \/ Schedule \/ RemoveWaits

WorkerStep ==
    \/ Check \/ FinalizeRetiredRoots \/ SelectPendingUnmount \/ UnmountTarget
    \/ HasActiveSession \/ WaitForSessionStop \/ HandleActiveSession \/ StopSession
    \/ EndSession \/ Stopped \/ PrepareMountAttempt \/ PrepareBlocked \/ PrepareTimed
    \/ MountSession \/ CreateSession \/ Terminate \/ WaitForMountRetry \/ MountRetryInterval
    \/ WaitForRetryReset \/ ResetBlocked \/ ResetTimed \/ RetryUnmountWithLimit
    \/ UnmountRetryInterval \/ RetryUnmount \/ WorkerEnds

Next ==
    \/ \E u \in Users : StartUser(u)
    \/ \E u \in Users, r \in Roots : AddRoot(u, r)
    \/ \E u \in Users, r \in Roots : RemoveRoot(u, r)
    \/ Stop
    \/ StopForServiceExit
    \/ ApiStep
    \/ \E t \in warm, ok \in BOOLEAN : FinishRootWarmup(t, ok)
    \/ \E r \in Roots : GracePasses(r)
    \/ WorkerStep
    \/ FuseInit
    \/ LoopExits

Spec == Init /\ [][Next]_vars

(* Threads that can run do run, warm-ups end, the kernel sends FUSE_INIT,  *)
(* and time passes; nobody has to make a call or to fail.                  *)
Fairness ==
    /\ WF_vars(ApiStep)
    /\ WF_vars(WorkerStep)
    /\ WF_vars(FuseInit)
    /\ \A r \in Roots : WF_vars(GracePasses(r))
    /\ WF_vars(\E t \in warm : FinishRootWarmup(t, TRUE))

FairSpec == Spec /\ Fairness

-----------------------------------------------------------------------------
TypeOK ==
    /\ state \in States /\ user \in Users \cup {NoUser}
    /\ DOMAIN roots \subseteq Roots
    /\ \A r \in DOMAIN roots :
         /\ roots[r].st \in {"WARMING", "READY", "RETIRING"}
         /\ roots[r].epoch \in 1..epoch
         /\ roots[r].tasks \in 0..Cardinality(warm)
    /\ session \in {"none", "starting", "running"}
    /\ pending \subseteq Users /\ mounted \subseteq Users
    /\ started <=> (user # NoUser)
    /\ session # "none" => started

(* CanUnload: the service is unloaded only when it leaves no mount point   *)
(* behind, whatever failed before and wherever the worker is; but for the  *)
(* mount point of a session that Stop dropped (OldSessionEnds).            *)
UnloadLeavesNoMount == IsIdle => mounted \subseteq {loop}

(* A mount point is never forgotten: it belongs to the session, is listed  *)
(* for clean-up, or the worker is busy with it; but for the mount point of *)
(* a session that Stop dropped, whose loop thread nobody joins.            *)
EveryMountHasAnOwner ==
    \A u \in mounted :
        \/ u \in pending
        \/ session # "none" /\ u = user
        \/ session = "none" /\ u = loop
        \/ worker.user = u /\ worker.pc \in {"create", "unmount", "joinloop", "retry",
                                              "uwait", "conclude"}

(* RemoveRoot, Stop and StartUser return only when no warm-up of the roots *)
(* they took away still reads the folder, and the counts are the tasks.    *)
WarmupsAreCounted ==
    /\ pendingWarm = Cardinality(warm)
    /\ api.pc = "idle" =>
         \A r \in Roots :
            LET n == Cardinality({t \in warm : t.root = r})
            IN IF r \in DOMAIN roots
               THEN n = roots[r].tasks /\ (roots[r].st = "RETIRING" => n = 0)
               ELSE n = 0

(* The step that makes a started controller idle dispatches the idle       *)
(* callback: nothing else would unload the service.                        *)
IdleIsAnnounced ==
    (~IsIdle /\ IsIdle' /\ started /\ started' /\ ~shutdown') => announced' # announced

(* Requests are served (READY) only through a session that answered, with  *)
(* a root, and never between two users.                                    *)
ReadyMeansServing == state = "READY" => session = "running" /\ roots # << >>

(* What Stop, RemoveRoot, CanUnload and a lookup may rely on.              *)
MountsAreOwned ==
    EveryMountHasAnOwner /\ UnloadLeavesNoMount /\ WarmupsAreCounted /\ ReadyMeansServing

(* Stop and StartUser leave no old session behind: its loop has ended.     *)
OldSessionEnds == ~started => loop = NoUser

(* Stop, StartUser, AddRoot and RemoveRoot return.                         *)
CallsReturn == api.pc # "idle" ~> api.pc = "idle"

(* A root that is active keeps or gets a session that answers the kernel,  *)
(* unless it is removed or the controller stopped: mounting is tried       *)
(* again, until MountRetryCount or UnmountRetryCount failures in a row     *)
(* make the worker wait for a change of the roots.                         *)
ActiveRootIsServed ==
    HasActiveRoot ~> \/ session = "running" \/ ~HasActiveRoot
                     \/ worker.pc \in {"reset", "resettimed", "resetblocked"}

=============================================================================
