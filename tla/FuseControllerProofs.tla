------------------------ MODULE FuseControllerProofs -------------------------
(***************************************************************************)
(* The mounts, the warm-ups and the idle callback of the FUSE controller,  *)
(* for any users and roots and any number of calls and failures.           *)
(***************************************************************************)
EXTENDS FuseController, FiniteSetTheorems, TLAPS

NumType == epoch \in Int /\ pendingWarm \in Int /\ announced \in Int
RootFields == {"st", "epoch", "tasks", "over"}
IsRoot(x) == x = [f \in RootFields |-> x[f]] /\ x.tasks \in Nat /\ x.epoch \in Int
RootType ==
    /\ roots = [r \in DOMAIN roots |-> roots[r]] /\ DOMAIN roots \subseteq Roots
    /\ \A r \in DOMAIN roots : IsRoot(roots[r])
CallType == api = [f \in DOMAIN NoApi |-> api[f]]
ThreadType == worker = [f \in DOMAIN NoWorker |-> worker[f]]

LEMMA CallFields ==
    DOMAIN NoApi = {"pc", "op", "user", "todo"}
BY Zenon DEF NoApi

LEMMA ThreadFields ==
    DOMAIN NoWorker = {"pc", "next", "user", "ok", "n", "m", "epoch", "reset"}
BY Zenon DEF NoWorker

LEMMA NewCall == NoApi = [f \in DOMAIN NoApi |-> NoApi[f]]
BY Zenon DEF NoApi

LEMMA NewThread == NoWorker = [f \in DOMAIN NoWorker |-> NoWorker[f]]
BY Zenon DEF NoWorker

LEMMA NewAddCall ==
    ASSUME NEW p, NEW o, NEW u, NEW S, NEW v, v = [pc |-> p, op |-> o, user |-> u, todo |-> S]
    PROVE  v = [f \in DOMAIN NoApi |-> v[f]]
BY Zenon DEF NoApi

(* Which thread may be where.                                              *)
CallInv ==
    /\ started => user \in Users
    /\ worker.pc # "none" => started
    /\ worker.pc = "end" => shutdown
    /\ api.pc \in {"drain", "begin"} => worker.pc = "none"
    /\ api.pc = "begin" => ~started /\ api.user \in Users
    /\ api.pc \in {"join", "drain"} /\ api.op = "start" => api.user \in Users

(* Where the worker goes on after a shared piece of its code.              *)
NextInv ==
    /\ worker.pc = "finalize" => worker.next \in {"select", "stop", "prepare"}
    /\ worker.pc \in {"unmount", "retry", "uwait", "conclude", "reset", "resettimed",
                      "resetblocked"}
       => worker.next \in {"check", "mretry", "stopped"}

(* The worker knows whether there is a session, and whose it is.           *)
Unmounted == {"prepare", "prepblocked", "preptimed", "mount", "create"}
Serving == {"wait", "stop", "exit", "joinloop"}
SessionInv ==
    /\ session # "none" => started /\ loop = user
    /\ worker.pc \in Unmounted \/ (worker.pc = "finalize" /\ worker.next = "prepare")
       => session = "none"
    /\ worker.pc \in Serving \/ (worker.pc = "finalize" /\ worker.next = "stop")
       => session # "none"
    /\ worker.pc \in {"mount", "create", "exit", "joinloop"} => worker.user = user

(* A mount the worker has to undo, or is about to make, keeps the          *)
(* controller from being idle.                                             *)
Failing ==
    \/ worker.pc \in {"mount", "create", "unmount"}
    \/ worker.pc \in {"retry", "uwait", "conclude"} /\ ~worker.ok
MountInv ==
    /\ mounted \subseteq Users
    /\ worker.pc \in {"joinloop", "retry", "uwait", "conclude"} /\ worker.ok
       => worker.user \notin mounted
    /\ Failing /\ session = "none" => state # "IDLE"

(***************************************************************************)
(* What the steps leave alone.                                             *)
(***************************************************************************)
Aside ==
    \/ \E u \in Users, r \in Roots : AddRoot(u, r) \/ RemoveRoot(u, r)
    \/ Join \/ Schedule \/ RemoveWaits \/ LoopExits
    \/ \E t \in warm, ok \in BOOLEAN : FinishRootWarmup(t, ok)
    \/ \E r \in Roots : GracePasses(r)
Quiet ==
    \/ Check \/ UnmountTarget \/ HasActiveSession \/ WaitForSessionStop \/ StopSession
    \/ Stopped \/ PrepareBlocked \/ PrepareTimed \/ MountSession \/ MountRetryInterval
    \/ WaitForRetryReset \/ ResetBlocked \/ UnmountRetryInterval
    \/ Join \/ RemoveWaits \/ LoopExits

LEMMA WorkerStays == ASSUME Next, ~WorkerStep, ~StartUserLocked PROVE worker' = worker
BY Zenon DEF Next, ApiStep, StartUser, AddRoot, RemoveRoot, Stop, StopForServiceExit, Join,
   Drain, Schedule, RemoveWaits, FinishRootWarmup, GracePasses, FuseInit, LoopExits

LEMMA CallsStay ==
    ASSUME WorkerStep \/ FuseInit \/ LoopExits, ~Terminate
    PROVE  UNCHANGED <<api, user, started, shutdown, epoch, warm, pendingWarm>>
BY Zenon DEF WorkerStep, Check, FinalizeRetiredRoots, SelectPendingUnmount, UnmountTarget,
   HasActiveSession, WaitForSessionStop, HandleActiveSession, StopSession, EndSession,
   Stopped, PrepareMountAttempt, PrepareBlocked, PrepareTimed, MountSession, CreateSession,
   WaitForMountRetry, MountRetryInterval, WaitForRetryReset, ResetBlocked, ResetTimed,
   RetryUnmountWithLimit, UnmountRetryInterval, RetryUnmount, WorkerEnds, FuseInit,
   LoopExits, ApiUnchanged

LEMMA MountsStay ==
    ASSUME Aside
    PROVE  UNCHANGED <<state, user, started, shutdown, session, loop, pending, worker, mounted>>
BY Zenon DEF Aside, AddRoot, RemoveRoot, Join, Schedule, RemoveWaits, FinishRootWarmup,
   GracePasses, LoopExits, ApiUnchanged

LEMMA StateStays ==
    ASSUME Quiet
    PROVE  UNCHANGED <<state, session, roots, pending, pendingWarm>>
BY Zenon DEF Quiet, Check, UnmountTarget, HasActiveSession, WaitForSessionStop, StopSession,
   Stopped, PrepareBlocked, PrepareTimed, MountSession, MountRetryInterval,
   WaitForRetryReset, ResetBlocked, UnmountRetryInterval, Join, RemoveWaits, LoopExits,
   ApiUnchanged

(***************************************************************************)
(* Where a step takes the worker.                                          *)
(***************************************************************************)
LEMMA CheckMoves ==
    ASSUME ThreadType, Check
    PROVE  \/ worker'.pc = "end" /\ shutdown /\ session = "none"
           \/ worker'.pc = "finalize" /\ worker'.next = "select"
BY ThreadFields, Zenon DEF ThreadType, Check, Go

LEMMA SelectMoves ==
    ASSUME ThreadType, SelectPendingUnmount
    PROVE  \/ worker'.pc = "active" /\ state' = state
           \/ /\ worker'.pc = "unmount" /\ worker'.next = "check"
              /\ state' = IF session = "none" THEN "CLEANUP_RETRY" ELSE state
BY ThreadFields, Zenon DEF ThreadType, SelectPendingUnmount, Go

LEMMA UnmountMoves ==
    ASSUME ThreadType, UnmountTarget
    PROVE  /\ worker'.pc = "retry" /\ worker'.next = worker.next /\ worker'.user = worker.user
           /\ \/ worker'.ok /\ mounted' = mounted \ {worker.user}
              \/ ~worker'.ok /\ mounted' = mounted
BY ThreadFields, Zenon DEF ThreadType, UnmountTarget, Unmount

LEMMA HandleMoves ==
    ASSUME ThreadType, HandleActiveSession
    PROVE  worker'.pc = "check" \/ (worker'.pc = "exit" /\ worker'.user = user)
BY ThreadFields, Zenon DEF ThreadType, HandleActiveSession

LEMMA PrepareMoves ==
    ASSUME ThreadType, PrepareMountAttempt
    PROVE  \/ worker'.pc = "end" /\ shutdown
           \/ worker'.pc = "mount" /\ worker'.user = user /\ state' = "MOUNTING"
           \/ worker'.pc \in {"preptimed", "prepblocked"}
BY ThreadFields, Zenon DEF ThreadType, PrepareMountAttempt, Go

LEMMA TimedMoves ==
    ASSUME ThreadType, PrepareTimed
    PROVE  worker'.pc = "prepare" \/ (worker'.pc = "finalize" /\ worker'.next = "prepare")
BY ThreadFields, Zenon DEF ThreadType, PrepareTimed, Go

LEMMA MountMoves ==
    ASSUME ThreadType, MountSession
    PROVE  /\ worker'.user = worker.user
           /\ \/ worker'.pc = "create" /\ mounted' = mounted \cup {worker.user}
              \/ worker'.pc = "mretry" /\ mounted' = mounted
              \/ worker'.pc = "unmount" /\ worker'.next = "mretry" /\ mounted' = mounted
BY ThreadFields, Zenon DEF ThreadType, MountSession, Go

LEMMA RetryMoves ==
    ASSUME ThreadType, RetryUnmountWithLimit
    PROVE  /\ worker'.next = worker.next /\ worker'.user = worker.user
           /\ worker'.ok = worker.ok
           /\ \/ worker'.pc = "conclude"
              \/ worker'.pc = "uwait"
           /\ state' \in {state, "STOPPING", "CLEANUP_RETRY"}
BY ThreadFields, Zenon DEF ThreadType, RetryUnmountWithLimit, Go

LEMMA IntervalMoves ==
    ASSUME ThreadType, UnmountRetryInterval
    PROVE  /\ worker'.next = worker.next /\ worker'.user = worker.user
           /\ \/ worker'.pc \in {"conclude", "retry"} /\ worker'.ok = worker.ok /\
                   mounted' = mounted
              \/ worker'.pc = "retry" /\ worker'.ok /\ mounted' = mounted \ {worker.user}
BY ThreadFields, Zenon DEF ThreadType, UnmountRetryInterval, Go

(* The table of the roots.                                                 *)
LEMMA NoRoots == DOMAIN << >> = {} /\ << >> = [r \in {} |-> 0]
OBVIOUS

LEMMA EmptyTable ==
    ASSUME RootType PROVE roots = << >> <=> DOMAIN roots = {}
BY NoRoots, Zenon DEF RootType

LEMMA RootTypeStep == ASSUME NumType, RootType, Next PROVE RootType'
<1>1. CASE roots' = roots
  BY <1>1, Zenon DEF RootType, IsRoot
<1>2. CASE roots' = << >>
  BY <1>2, NoRoots, Zenon DEF RootType
<1>3. CASE StartUserLocked
  <2>0. PICK rs \in SUBSET Roots : \E num \in [rs -> 1..Cardinality(rs)] :
            roots' = [r \in rs |-> [st |-> "WARMING", epoch |-> epoch + num[r],
                                    tasks |-> 0, over |-> FALSE]]
    BY <1>3, Zenon DEF StartUserLocked
  <2>1. PICK num \in [rs -> 1..Cardinality(rs)] :
            roots' = [r \in rs |-> [st |-> "WARMING", epoch |-> epoch + num[r],
                                    tasks |-> 0, over |-> FALSE]]
    BY <2>0, Zenon
  <2>2. \A r \in rs : IsRoot([st |-> "WARMING", epoch |-> epoch + num[r], tasks |-> 0,
                              over |-> FALSE])
    BY DEF IsRoot, RootFields, NumType
  <2> QED BY <2>1, <2>2 DEF RootType
<1>4. ASSUME NEW u \in Users, NEW r \in Roots, AddRoot(u, r) PROVE RootType'
  <2>1. CASE roots' = roots
    BY <1>1, <2>1, Zenon
  <2> DEFINE x == [st |-> "WARMING", epoch |-> epoch + 1, tasks |-> CarriedTasks(r),
                   over |-> FALSE]
  <2>2. CASE roots' = [q \in DOMAIN roots \cup {r} |-> IF q = r THEN x ELSE roots[q]]
    <3>1. IsRoot(x)
      BY DEF IsRoot, RootFields, NumType, RootType, CarriedTasks
    <3> HIDE DEF x
    <3> QED BY <2>2, <3>1 DEF RootType
  <2> QED BY <1>4, <2>1, <2>2 DEF AddRoot
<1>5. ASSUME NEW u \in Users, NEW r \in Roots, RemoveRoot(u, r) PROVE RootType'
  <2>1. CASE roots' = roots
    BY <1>1, <2>1, Zenon
  <2> DEFINE x == [roots[r] EXCEPT !.st = "RETIRING", !.epoch = epoch + 1, !.over = FALSE]
  <2>2. CASE r \in DOMAIN roots /\ roots' = [roots EXCEPT ![r] = x]
    <3>1. x = [f \in RootFields |-> x[f]]
      BY <2>2, Zenon DEF IsRoot, RootType
    <3>2. x.tasks = roots[r].tasks /\ x.epoch = epoch + 1
      BY <2>2 DEF IsRoot, RootType, RootFields
    <3>3. IsRoot(x)
      BY <2>2, <3>1, <3>2 DEF IsRoot, RootType, NumType
    <3> HIDE DEF x
    <3> QED BY <2>2, <3>3, Zenon DEF RootType
  <2> QED BY <1>5, <2>1, <2>2, Zenon DEF RemoveRoot
<1>6. CASE Schedule
  <2>1. CASE roots' = roots
    BY <1>1, <2>1, Zenon
  <2>2. ASSUME NEW r \in DOMAIN roots, roots' = [roots EXCEPT ![r].tasks = @ + 1]
        PROVE  RootType'
    <3> DEFINE x == [roots[r] EXCEPT !.tasks = @ + 1]
    <3>1. IsRoot(x)
      BY DEF IsRoot, RootFields, RootType
    <3>2. roots' = [roots EXCEPT ![r] = x]
      BY <2>2, Zenon DEF RootType
    <3> HIDE DEF x
    <3> QED BY <3>1, <3>2, Zenon DEF RootType
  <2> QED BY <1>6, <2>1, <2>2 DEF Schedule, IsWarmupCurrent
<1>7. ASSUME NEW t \in warm, NEW ok \in BOOLEAN, FinishRootWarmup(t, ok) PROVE RootType'
  <2>1. CASE roots' = roots
    BY <1>1, <2>1, Zenon
  <2> DEFINE x == [roots[t.root] EXCEPT
                     !.tasks = TasksAfter(t),
                     !.st = IF user = t.user /\ roots[t.root].epoch = t.epoch
                               /\ @ = "WARMING" /\ ok THEN "READY" ELSE @]
  <2>2. CASE t.root \in DOMAIN roots /\ roots[t.root].tasks > 0 /\ roots' # roots
    <3>3. x = [f \in RootFields |-> x[f]]
      BY <2>2, Zenon DEF IsRoot, RootType
    <3>4. x.tasks = roots[t.root].tasks - 1 /\ x.epoch = roots[t.root].epoch
      BY <2>2 DEF IsRoot, RootType, RootFields, TasksAfter
    <3>1. IsRoot(x)
      BY <2>2, <3>3, <3>4 DEF IsRoot, RootType
    <3>2. roots' = [roots EXCEPT ![t.root] = x]
      BY <1>7, <2>2, Zenon DEF FinishRootWarmup, RootType
    <3> HIDE DEF x
    <3> QED BY <2>2, <3>1, <3>2, Zenon DEF RootType
  <2> QED BY <1>7, <2>1, <2>2 DEF FinishRootWarmup
<1>8. ASSUME NEW r \in Roots, GracePasses(r) PROVE RootType'
  <2> DEFINE x == [roots[r] EXCEPT !.over = TRUE]
  <2>1. r \in DOMAIN roots /\ roots' = [roots EXCEPT ![r] = x]
    BY <1>8, Zenon DEF GracePasses, RootType
  <2>2. IsRoot(x)
    BY <2>1, Zenon DEF IsRoot, RootFields, RootType
  <2> HIDE DEF x
  <2> QED BY <2>1, <2>2, Zenon DEF RootType
<1>9. ASSUME NEW S \in SUBSET DOMAIN roots, roots' = [r \in S |-> roots[r]] PROVE RootType'
  BY <1>9, Zenon DEF RootType
<1>10. CASE FinalizeRetiredRoots \/ ResetTimed
  BY <1>1, <1>9, <1>10, Zenon DEF FinalizeRetiredRoots, ResetTimed
<1>11. CASE WorkerStep /\ ~FinalizeRetiredRoots /\ ~ResetTimed
  <2>1. roots' = roots \/ roots' = << >>
    BY <1>11, Zenon DEF WorkerStep, Check, SelectPendingUnmount, UnmountTarget, HasActiveSession,
       WaitForSessionStop, HandleActiveSession, StopSession, EndSession, Stopped,
       PrepareMountAttempt, PrepareBlocked, PrepareTimed, MountSession, CreateSession,
       Terminate, WaitForMountRetry, MountRetryInterval, WaitForRetryReset, ResetBlocked,
       RetryUnmountWithLimit, UnmountRetryInterval, RetryUnmount, WorkerEnds
  <2> QED BY <1>1, <1>2, <2>1
<1>12. CASE (\E u \in Users : StartUser(u)) \/ Stop \/ StopForServiceExit
  <2>1. roots' = roots \/ roots' = << >>
    BY <1>12, Zenon DEF StartUser, Stop, StopForServiceExit, StopLocked
  <2> QED BY <1>1, <1>2, <2>1
<1>13. CASE Join \/ Drain \/ RemoveWaits \/ FuseInit \/ LoopExits
  BY <1>1, <1>13, Zenon DEF Join, Drain, RemoveWaits, FuseInit, LoopExits
<1> QED
  BY <1>3, <1>4, <1>5, <1>6, <1>7, <1>8, <1>10, <1>11, <1>12, <1>13, Zenon DEF Next, ApiStep

LEMMA ThreadTypeStep ==
    ASSUME ThreadType, Next
    PROVE  ThreadType'
<1>1. CASE ~WorkerStep /\ ~StartUserLocked
  BY <1>1, WorkerStays, Zenon DEF ThreadType
<1>2. CASE StartUserLocked
  BY <1>2, NewThread, Zenon DEF StartUserLocked, AfterCleanup, ThreadType
<1>3. CASE Check
  BY <1>3, NewThread, Zenon DEF Check, At, Go, ApiUnchanged, ThreadType
<1>4. CASE FinalizeRetiredRoots
  BY <1>4, NewThread, Zenon DEF FinalizeRetiredRoots, At, Go, ApiUnchanged, AfterCleanup,
     Announce, ThreadType
<1>5. CASE SelectPendingUnmount
  BY <1>5, NewThread, Zenon DEF SelectPendingUnmount, At, Go, ApiUnchanged, ThreadType
<1>6. CASE UnmountTarget
  BY <1>6, NewThread, Zenon DEF UnmountTarget, Unmount, At, Fault, ApiUnchanged, ThreadType
<1>7. CASE HasActiveSession
  BY <1>7, NewThread, Zenon DEF HasActiveSession, At, Go, ApiUnchanged, ThreadType
<1>8. CASE WaitForSessionStop
  BY <1>8, NewThread, Zenon DEF WaitForSessionStop, At, Go, ApiUnchanged, ThreadType
<1>9. CASE HandleActiveSession
  BY <1>9, NewThread, Zenon DEF HandleActiveSession, At, Go, ApiUnchanged, ThreadType
<1>10. CASE StopSession
  BY <1>10, NewThread, Zenon DEF StopSession, Unmount, At, Fault, ApiUnchanged, ThreadType
<1>11. CASE EndSession
  BY <1>11, NewThread, Zenon DEF EndSession, At, ApiUnchanged, Announce, ThreadType
<1>12. CASE Stopped
  BY <1>12, NewThread, Zenon DEF Stopped, At, ApiUnchanged, ThreadType
<1>13. CASE PrepareMountAttempt
  BY <1>13, NewThread, Zenon DEF PrepareMountAttempt, At, Go, ApiUnchanged, ThreadType
<1>14. CASE PrepareBlocked
  BY <1>14, NewThread, Zenon DEF PrepareBlocked, At, Go, ApiUnchanged, ThreadType
<1>15. CASE PrepareTimed
  BY <1>15, NewThread, Zenon DEF PrepareTimed, At, Go, ApiUnchanged, ThreadType
<1>16. CASE MountSession
  BY <1>16, NewThread, Zenon DEF MountSession, At, Go, Fault, ApiUnchanged, ThreadType
<1>17. CASE CreateSession
  BY <1>17, NewThread, Zenon DEF CreateSession, At, Fault, ApiUnchanged, ThreadType
<1>18. CASE Terminate
  BY <1>18, NewThread, Zenon DEF Terminate, At, ThreadType
<1>19. CASE WaitForMountRetry
  BY <1>19, NewThread, Zenon DEF WaitForMountRetry, At, ApiUnchanged, Announce, ThreadType
<1>20. CASE MountRetryInterval
  BY <1>20, NewThread, Zenon DEF MountRetryInterval, At, ApiUnchanged, ThreadType
<1>21. CASE WaitForRetryReset
  BY <1>21, NewThread, Zenon DEF WaitForRetryReset, At, Go, ApiUnchanged, ThreadType
<1>22. CASE ResetBlocked
  BY <1>22, NewThread, Zenon DEF ResetBlocked, At, Go, ApiUnchanged, ThreadType
<1>23. CASE ResetTimed
  BY <1>23, NewThread, Zenon DEF ResetTimed, At, Go, ApiUnchanged, AfterCleanup, Announce,
     ThreadType
<1>24. CASE RetryUnmountWithLimit
  BY <1>24, NewThread, Zenon DEF RetryUnmountWithLimit, At, Go, ApiUnchanged, ThreadType
<1>25. CASE UnmountRetryInterval
  BY <1>25, NewThread, Zenon DEF UnmountRetryInterval, At, Go, Fault, ApiUnchanged, ThreadType
<1>26. CASE RetryUnmount
  BY <1>26, NewThread, Zenon DEF RetryUnmount, PendingAfterFailure, AfterCleanup, At, Go,
     Announce, ApiUnchanged, ThreadType
<1>27. CASE WorkerEnds
  BY <1>27, NewThread, Zenon DEF WorkerEnds, AfterCleanup, At, ApiUnchanged, ThreadType
<1> QED
  BY <1>1, <1>2, <1>3, <1>4, <1>5, <1>6, <1>7, <1>8, <1>9, <1>10, <1>11, <1>12, <1>13,
     <1>14, <1>15, <1>16, <1>17, <1>18, <1>19, <1>20, <1>21, <1>22, <1>23, <1>24, <1>25,
     <1>26, <1>27, Zenon DEF Next, ApiStep, WorkerStep

LEMMA CallTypeStep ==
    ASSUME CallType, Next
    PROVE  CallType'
<1>1. CASE (WorkerStep \/ FuseInit \/ LoopExits) /\ ~Terminate
  BY <1>1, CallsStay, Zenon DEF CallType
<1>2. CASE \/ \E t \in warm, ok \in BOOLEAN : FinishRootWarmup(t, ok)
          \/ \E r \in Roots : GracePasses(r)
  BY <1>2, Zenon DEF CallType, FinishRootWarmup, GracePasses
<1>3. ASSUME NEW u \in Users, StartUser(u) PROVE CallType'
  BY <1>3, NewCall, NewAddCall, Zenon DEF StartUser, StopLocked, Begin, CallType
<1>4. ASSUME NEW u \in Users, NEW r \in Roots, AddRoot(u, r) PROVE CallType'
  BY <1>4, NewCall, NewAddCall DEF AddRoot, Begin, CarriedTasks, CallType
<1>5. ASSUME NEW u \in Users, NEW r \in Roots, RemoveRoot(u, r) PROVE CallType'
  BY <1>5, NewCall, NewAddCall DEF RemoveRoot, Begin, CallType
<1>6. CASE Stop
  BY <1>6, NewCall, NewAddCall, Zenon DEF Stop, StopLocked, Begin, CallType
<1>7. CASE StopForServiceExit
  BY <1>7, NewCall, NewAddCall, Zenon DEF StopForServiceExit, StopLocked, Begin, CallType
<1>8. CASE Join
  BY <1>8, NewCall, NewAddCall, Zenon DEF Join, CallType
<1>9. CASE Drain
  BY <1>9, NewCall, NewAddCall, Zenon DEF Drain, AfterCleanup, CallType
<1>10. CASE StartUserLocked
  BY <1>10, NewCall, NewAddCall, Zenon DEF StartUserLocked, AfterCleanup, CallType
<1>11. CASE Schedule
  BY <1>11, NewCall, NewAddCall, Zenon DEF Schedule, IsWarmupCurrent, CallType
<1>12. CASE RemoveWaits
  BY <1>12, NewCall, NewAddCall, Zenon DEF RemoveWaits, CallType
<1>13. CASE Terminate
  BY <1>13, NewCall, NewAddCall, Zenon DEF Terminate, At, CallType
<1> QED
  BY <1>1, <1>2, <1>3, <1>4, <1>5, <1>6, <1>7, <1>8, <1>9, <1>10, <1>11, <1>12, <1>13,
     Zenon DEF Next, ApiStep, WorkerStep

LEMMA NumTypeStep ==
    ASSUME NumType, Next
    PROVE  NumType'
<1>1. CASE (WorkerStep \/ FuseInit \/ LoopExits) /\ ~Terminate
  <2>1. epoch' \in Int /\ pendingWarm' \in Int
    BY <1>1, CallsStay, Zenon DEF NumType
  <2>2. announced' = announced \/ announced' = 1 - announced
    BY <1>1, Zenon
       DEF WorkerStep, Check, FinalizeRetiredRoots, SelectPendingUnmount, UnmountTarget,
       HasActiveSession, WaitForSessionStop, HandleActiveSession, StopSession, EndSession,
       Stopped, PrepareMountAttempt, PrepareBlocked, PrepareTimed, MountSession,
       CreateSession, WaitForMountRetry, MountRetryInterval, WaitForRetryReset,
       ResetBlocked, ResetTimed, RetryUnmountWithLimit, UnmountRetryInterval,
       RetryUnmount, WorkerEnds, FuseInit, LoopExits, Announce
  <2> QED BY <2>1, <2>2 DEF NumType
<1>2. ASSUME NEW u \in Users, StartUser(u) PROVE NumType'
  BY <1>2, Zenon DEF StartUser, StopLocked, Begin, NumType
<1>3. ASSUME NEW u \in Users, NEW r \in Roots, AddRoot(u, r) PROVE NumType'
  BY <1>3 DEF AddRoot, Begin, CarriedTasks, NumType
<1>4. ASSUME NEW u \in Users, NEW r \in Roots, RemoveRoot(u, r) PROVE NumType'
  BY <1>4 DEF RemoveRoot, Begin, NumType
<1>5. CASE Stop
  BY <1>5, Zenon DEF Stop, StopLocked, Begin, NumType
<1>6. CASE StopForServiceExit
  BY <1>6, Zenon DEF StopForServiceExit, StopLocked, Begin, NumType
<1>7. CASE Join
  BY <1>7, Zenon DEF Join, NumType
<1>8. CASE Drain
  BY <1>8, Zenon DEF Drain, AfterCleanup, NumType
<1>9. CASE StartUserLocked
  <2>1. PICK rs \in SUBSET Roots : epoch' = epoch + Cardinality(rs)
    BY <1>9, Zenon DEF StartUserLocked
  <2>2. Cardinality(rs) \in Nat
    BY RootsAssumption, FS_Subset, FS_CardinalityType, Zenon
  <2> QED BY <1>9, <2>1, <2>2 DEF StartUserLocked, NumType
<1>10. CASE Schedule
  BY <1>10 DEF Schedule, IsWarmupCurrent, NumType
<1>11. CASE RemoveWaits
  BY <1>11, Zenon DEF RemoveWaits, NumType
<1>12. ASSUME NEW t \in warm, NEW ok \in BOOLEAN, FinishRootWarmup(t, ok) PROVE NumType'
  BY <1>12 DEF FinishRootWarmup, Announce, Fault, TasksAfter, NumType
<1>13. ASSUME NEW r \in Roots, GracePasses(r) PROVE NumType'
  BY <1>13, Zenon DEF GracePasses, NumType
<1>14. CASE Terminate
  BY <1>14 DEF Terminate, At, NumType
<1> QED
  BY <1>1, <1>2, <1>3, <1>4, <1>5, <1>6, <1>7, <1>8, <1>9, <1>10, <1>11, <1>12, <1>13,
     <1>14, Zenon DEF Next, ApiStep, WorkerStep

LEMMA NextInvStep ==
    ASSUME ThreadType, NextInv, Next
    PROVE  NextInv'
<1>1. CASE ~WorkerStep /\ ~StartUserLocked
  BY <1>1, WorkerStays, Zenon DEF NextInv
<1>2. CASE StartUserLocked
  BY <1>2, ThreadFields, Zenon DEF StartUserLocked, AfterCleanup, NoWorker, NextInv, ThreadType
<1>3. CASE Check
  BY <1>3, CheckMoves, Zenon DEF Check, At, ApiUnchanged, NextInv
<1>4. CASE FinalizeRetiredRoots
  BY <1>4, ThreadFields, Zenon DEF FinalizeRetiredRoots, At, Go, ApiUnchanged, AfterCleanup,
     Announce, NextInv, ThreadType
<1>5. CASE SelectPendingUnmount
  BY <1>5, SelectMoves, Zenon DEF SelectPendingUnmount, At, ApiUnchanged, NextInv
<1>6. CASE UnmountTarget
  BY <1>6, UnmountMoves, Zenon DEF UnmountTarget, At, ApiUnchanged, NextInv
<1>7. CASE HasActiveSession
  BY <1>7, ThreadFields DEF HasActiveSession, At, Go, ApiUnchanged, NextInv, ThreadType
<1>8. CASE WaitForSessionStop
  BY <1>8, ThreadFields DEF WaitForSessionStop, At, Go, ApiUnchanged, NextInv,
     ThreadType
<1>9. CASE HandleActiveSession
  BY <1>9, HandleMoves, Zenon DEF HandleActiveSession, At, ApiUnchanged, NextInv
<1>10. CASE StopSession
  BY <1>10, ThreadFields, Zenon DEF StopSession, Unmount, At, Fault, ApiUnchanged, NextInv,
     ThreadType
<1>11. CASE EndSession
  BY <1>11, ThreadFields, Zenon DEF EndSession, At, ApiUnchanged, Announce, NextInv, ThreadType
<1>12. CASE Stopped
  BY <1>12, ThreadFields, Zenon DEF Stopped, At, ApiUnchanged, NextInv, ThreadType
<1>13. CASE PrepareMountAttempt
  BY <1>13, PrepareMoves, Zenon DEF PrepareMountAttempt, At, ApiUnchanged, NextInv
<1>14. CASE PrepareBlocked
  BY <1>14, ThreadFields, Zenon DEF PrepareBlocked, At, Go, ApiUnchanged, NextInv, ThreadType
<1>15. CASE PrepareTimed
  BY <1>15, TimedMoves, Zenon DEF PrepareTimed, At, ApiUnchanged, NextInv
<1>16. CASE MountSession
  BY <1>16, MountMoves, Zenon DEF MountSession, At, ApiUnchanged, NextInv
<1>17. CASE CreateSession
  BY <1>17, ThreadFields, Zenon DEF CreateSession, At, Fault, ApiUnchanged, NextInv, ThreadType
<1>18. CASE Terminate
  BY <1>18, ThreadFields, Zenon DEF Terminate, At, NoWorker, NoApi, NextInv, ThreadType
<1>19. CASE WaitForMountRetry
  BY <1>19, ThreadFields DEF WaitForMountRetry, At, ApiUnchanged, Announce, NextInv,
     ThreadType
<1>20. CASE MountRetryInterval
  BY <1>20, ThreadFields, Zenon DEF MountRetryInterval, At, ApiUnchanged, NextInv, ThreadType
<1>21. CASE WaitForRetryReset
  BY <1>21, ThreadFields, Zenon DEF WaitForRetryReset, At, Go, ApiUnchanged, NextInv,
     ThreadType
<1>22. CASE ResetBlocked
  BY <1>22, ThreadFields, Zenon DEF ResetBlocked, At, Go, ApiUnchanged, NextInv, ThreadType
<1>23. CASE ResetTimed
  BY <1>23, ThreadFields, Zenon DEF ResetTimed, At, Go, ApiUnchanged, AfterCleanup, Announce,
     NextInv, ThreadType
<1>24. CASE RetryUnmountWithLimit
  BY <1>24, RetryMoves, Zenon DEF RetryUnmountWithLimit, At, ApiUnchanged, NextInv
<1>25. CASE UnmountRetryInterval
  BY <1>25, IntervalMoves, Zenon DEF UnmountRetryInterval, At, ApiUnchanged, NextInv
<1>26. CASE RetryUnmount
  BY <1>26, ThreadFields, Zenon DEF RetryUnmount, PendingAfterFailure, AfterCleanup, At, Go,
     Announce, ApiUnchanged, NextInv, ThreadType
<1>27. CASE WorkerEnds
  BY <1>27, ThreadFields, Zenon DEF WorkerEnds, AfterCleanup, NoWorker, At, ApiUnchanged,
     NextInv, ThreadType
<1> QED
  BY <1>1, <1>2, <1>3, <1>4, <1>5, <1>6, <1>7, <1>8, <1>9, <1>10, <1>11, <1>12, <1>13,
     <1>14, <1>15, <1>16, <1>17, <1>18, <1>19, <1>20, <1>21, <1>22, <1>23, <1>24, <1>25,
     <1>26, <1>27, Zenon DEF Next, ApiStep, WorkerStep

LEMMA CallInvStep ==
    ASSUME ThreadType, CallType, NextInv, CallInv, Next
    PROVE  CallInv'
<1>1. ASSUME NEW u \in Users, StartUser(u) PROVE CallInv'
  BY <1>1, CallFields, ThreadFields, Zenon DEF StartUser, StopLocked, Begin, NoApi, CallInv,
     NextInv, CallType, ThreadType
<1>2. ASSUME NEW u \in Users, NEW r \in Roots, AddRoot(u, r) PROVE CallInv'
  BY <1>2, CallFields, ThreadFields DEF AddRoot, Begin, CarriedTasks, CallInv, NextInv,
     CallType, ThreadType
<1>3. ASSUME NEW u \in Users, NEW r \in Roots, RemoveRoot(u, r) PROVE CallInv'
  BY <1>3, CallFields, ThreadFields DEF RemoveRoot, Begin, CallInv, NextInv, CallType,
     ThreadType
<1>4. CASE Stop
  <2>1. CASE started
    BY <1>4, <2>1, CallFields, Zenon DEF Stop, StopLocked, Begin, NoApi, CallInv, CallType
  <2>2. CASE ~started
    BY <1>4, <2>2, CallFields DEF Stop, StopLocked, Begin, NoApi, CallInv, CallType
  <2> QED BY <2>1, <2>2
<1>5. CASE StopForServiceExit
  <2>1. CASE started
    BY <1>5, <2>1, CallFields, Zenon DEF StopForServiceExit, StopLocked, Begin, NoApi, CallInv,
       CallType
  <2>2. CASE ~started
    BY <1>5, <2>2, CallFields DEF StopForServiceExit, StopLocked, Begin, NoApi, CallInv, CallType
  <2> QED BY <2>1, <2>2
<1>6. CASE Join
  BY <1>6, CallFields, ThreadFields, Zenon DEF Join, CallInv, NextInv, CallType, ThreadType
<1>7. CASE Drain
  BY <1>7, CallFields, ThreadFields, Zenon DEF Drain, AfterCleanup, NoApi, CallInv, NextInv,
     CallType, ThreadType
<1>8. CASE StartUserLocked
  BY <1>8, CallFields, ThreadFields DEF StartUserLocked, AfterCleanup, NoWorker,
     CallInv, NextInv, CallType, ThreadType
<1>9. CASE Schedule
  BY <1>9, CallFields, ThreadFields DEF Schedule, IsWarmupCurrent, NoApi, CallInv,
     NextInv, CallType, ThreadType
<1>10. CASE RemoveWaits
  BY <1>10, CallFields, ThreadFields, Zenon DEF RemoveWaits, NoApi, CallInv, NextInv, CallType,
     ThreadType
<1>11. ASSUME NEW t \in warm, NEW ok \in BOOLEAN, FinishRootWarmup(t, ok) PROVE CallInv'
  BY <1>11, CallFields, ThreadFields, Zenon DEF FinishRootWarmup, Announce, Fault, TasksAfter,
     CallInv, NextInv, CallType, ThreadType
<1>12. ASSUME NEW r \in Roots, GracePasses(r) PROVE CallInv'
  BY <1>12, CallFields, ThreadFields, Zenon DEF GracePasses, CallInv, NextInv, CallType,
     ThreadType
<1>13. CASE Check
  BY <1>13, CheckMoves, Zenon DEF Check, At, ApiUnchanged, CallInv, NextInv
<1>14. CASE FinalizeRetiredRoots
  BY <1>14, CallFields, ThreadFields, Zenon DEF FinalizeRetiredRoots, At, Go, ApiUnchanged,
     AfterCleanup, Announce, CallInv, NextInv, CallType, ThreadType
<1>15. CASE SelectPendingUnmount
  BY <1>15, SelectMoves, Zenon DEF SelectPendingUnmount, At, ApiUnchanged, CallInv, NextInv
<1>16. CASE UnmountTarget
  BY <1>16, UnmountMoves, Zenon DEF UnmountTarget, At, ApiUnchanged, CallInv, NextInv
<1>17. CASE HasActiveSession
  BY <1>17, CallFields, ThreadFields, Zenon DEF HasActiveSession, At, Go, ApiUnchanged,
     CallInv, NextInv, CallType, ThreadType
<1>18. CASE WaitForSessionStop
  BY <1>18, CallFields, ThreadFields, Zenon DEF WaitForSessionStop, At, Go, ApiUnchanged,
     CallInv, NextInv, CallType, ThreadType
<1>19. CASE HandleActiveSession
  BY <1>19, HandleMoves, Zenon DEF HandleActiveSession, At, ApiUnchanged, CallInv, NextInv
<1>20. CASE StopSession
  BY <1>20, CallFields, ThreadFields, Zenon DEF StopSession, Unmount, At, Fault, ApiUnchanged,
     CallInv, NextInv, CallType, ThreadType
<1>21. CASE EndSession
  BY <1>21, CallFields, ThreadFields, Zenon DEF EndSession, At, ApiUnchanged, Announce,
     CallInv, NextInv, CallType, ThreadType
<1>22. CASE Stopped
  BY <1>22, CallFields, ThreadFields, Zenon DEF Stopped, At, ApiUnchanged, CallInv, NextInv,
     CallType, ThreadType
<1>23. CASE PrepareMountAttempt
  BY <1>23, PrepareMoves, Zenon DEF PrepareMountAttempt, At, ApiUnchanged, CallInv, NextInv
<1>24. CASE PrepareBlocked
  BY <1>24, CallFields, ThreadFields, Zenon DEF PrepareBlocked, At, Go, ApiUnchanged, CallInv,
     NextInv, CallType, ThreadType
<1>25. CASE PrepareTimed
  BY <1>25, TimedMoves, Zenon DEF PrepareTimed, At, ApiUnchanged, CallInv, NextInv
<1>26. CASE MountSession
  BY <1>26, MountMoves, Zenon DEF MountSession, At, ApiUnchanged, CallInv, NextInv
<1>27. CASE CreateSession
  BY <1>27, CallFields, ThreadFields, Zenon DEF CreateSession, At, Fault, ApiUnchanged,
     CallInv, NextInv, CallType, ThreadType
<1>28. CASE Terminate
  BY <1>28, CallFields, ThreadFields, Zenon DEF Terminate, At, NoWorker, NoApi, CallInv,
     NextInv, CallType, ThreadType
<1>29. CASE WaitForMountRetry
  BY <1>29, CallFields, ThreadFields, Zenon DEF WaitForMountRetry, At, ApiUnchanged, Announce,
     CallInv, NextInv, CallType, ThreadType
<1>30. CASE MountRetryInterval
  BY <1>30, CallFields, ThreadFields, Zenon DEF MountRetryInterval, At, ApiUnchanged, CallInv,
     NextInv, CallType, ThreadType
<1>31. CASE WaitForRetryReset
  BY <1>31, CallFields, ThreadFields, Zenon DEF WaitForRetryReset, At, Go, ApiUnchanged,
     CallInv, NextInv, CallType, ThreadType
<1>32. CASE ResetBlocked
  BY <1>32, CallFields, ThreadFields DEF ResetBlocked, At, Go, ApiUnchanged, CallInv,
     NextInv, CallType, ThreadType
<1>33. CASE ResetTimed
  BY <1>33, CallFields, ThreadFields, Zenon DEF ResetTimed, At, Go, ApiUnchanged, AfterCleanup,
     Announce, CallInv, NextInv, CallType, ThreadType
<1>34. CASE RetryUnmountWithLimit
  BY <1>34, RetryMoves, Zenon DEF RetryUnmountWithLimit, At, ApiUnchanged, CallInv, NextInv
<1>35. CASE UnmountRetryInterval
  BY <1>35, IntervalMoves, Zenon DEF UnmountRetryInterval, At, ApiUnchanged, CallInv, NextInv
<1>36. CASE RetryUnmount
  BY <1>36, CallFields, ThreadFields, Zenon DEF RetryUnmount, PendingAfterFailure,
     AfterCleanup, At, Go, Announce, ApiUnchanged, CallInv, NextInv, CallType,
     ThreadType
<1>37. CASE WorkerEnds
  BY <1>37, CallFields, ThreadFields, Zenon DEF WorkerEnds, AfterCleanup, NoWorker, At,
     ApiUnchanged, CallInv, NextInv, CallType, ThreadType
<1>38. CASE FuseInit
  BY <1>38, CallFields, ThreadFields, Zenon DEF FuseInit, AfterInit, ApiUnchanged, CallInv,
     NextInv, CallType, ThreadType
<1>39. CASE LoopExits
  BY <1>39, CallFields, ThreadFields, Zenon DEF LoopExits, Fault, ApiUnchanged, CallInv,
     NextInv, CallType, ThreadType
<1> QED
  BY <1>1, <1>2, <1>3, <1>4, <1>5, <1>6, <1>7, <1>8, <1>9, <1>10, <1>11, <1>12, <1>13,
     <1>14, <1>15, <1>16, <1>17, <1>18, <1>19, <1>20, <1>21, <1>22, <1>23, <1>24, <1>25,
     <1>26, <1>27, <1>28, <1>29, <1>30, <1>31, <1>32, <1>33, <1>34, <1>35, <1>36, <1>37,
     <1>38, <1>39, Zenon DEF Next, ApiStep, WorkerStep

LEMMA SessionInvStep ==
    ASSUME ThreadType, CallType, NextInv, CallInv, SessionInv, Next
    PROVE  SessionInv'
<1>1. CASE Aside
  BY <1>1, MountsStay, Zenon DEF SessionInv
<1>2. ASSUME NEW u \in Users, StartUser(u) PROVE SessionInv'
  BY <1>2, ThreadFields DEF StartUser, StopLocked, Begin, NoApi, CallInv, SessionInv,
     NextInv, ThreadType, Unmounted, Serving
<1>3. CASE Stop
  BY <1>3, ThreadFields, Zenon DEF Stop, StopLocked, Begin, NoApi, CallInv, SessionInv,
     NextInv, ThreadType, Unmounted, Serving
<1>4. CASE StopForServiceExit
  BY <1>4, ThreadFields DEF StopForServiceExit, StopLocked, Begin, NoApi, CallInv,
     SessionInv, NextInv, ThreadType, Unmounted, Serving
<1>5. CASE Drain
  BY <1>5, ThreadFields, Zenon DEF Drain, AfterCleanup, NoApi, CallInv, SessionInv, NextInv,
     ThreadType, Unmounted, Serving
<1>6. CASE StartUserLocked
  BY <1>6, ThreadFields, Zenon DEF StartUserLocked, AfterCleanup, NoWorker, CallInv,
     SessionInv, NextInv, ThreadType, Unmounted, Serving
<1>7. CASE Check
  BY <1>7, CheckMoves, Zenon DEF Check, At, ApiUnchanged, CallInv, SessionInv, NextInv,
     Unmounted, Serving
<1>8. CASE FinalizeRetiredRoots
  BY <1>8, ThreadFields, Zenon DEF FinalizeRetiredRoots, At, Go, ApiUnchanged, AfterCleanup,
     Announce, CallInv, SessionInv, NextInv, ThreadType, Unmounted, Serving
<1>9. CASE SelectPendingUnmount
  BY <1>9, SelectMoves, Zenon DEF SelectPendingUnmount, At, ApiUnchanged, CallInv, SessionInv,
     NextInv, Unmounted, Serving
<1>10. CASE UnmountTarget
  BY <1>10, UnmountMoves, Zenon DEF UnmountTarget, At, ApiUnchanged, CallInv, SessionInv,
     NextInv, Unmounted, Serving
<1>11. CASE HasActiveSession
  BY <1>11, ThreadFields, Zenon DEF HasActiveSession, At, Go, ApiUnchanged, CallInv,
     SessionInv, NextInv, ThreadType, Unmounted, Serving
<1>12. CASE WaitForSessionStop
  BY <1>12, ThreadFields DEF WaitForSessionStop, At, Go, ApiUnchanged, CallInv,
     SessionInv, NextInv, ThreadType, Unmounted, Serving
<1>13. CASE HandleActiveSession
  BY <1>13, HandleMoves, Zenon DEF HandleActiveSession, At, ApiUnchanged, CallInv, SessionInv,
     NextInv, Unmounted, Serving
<1>14. CASE StopSession
  BY <1>14, ThreadFields, Zenon DEF StopSession, Unmount, At, Fault, ApiUnchanged, CallInv,
     SessionInv, NextInv, ThreadType, Unmounted, Serving
<1>15. CASE EndSession
  BY <1>15, ThreadFields, Zenon DEF EndSession, At, ApiUnchanged, Announce, CallInv,
     SessionInv, NextInv, ThreadType, Unmounted, Serving
<1>16. CASE Stopped
  BY <1>16, ThreadFields DEF Stopped, At, ApiUnchanged, CallInv, SessionInv, NextInv,
     ThreadType, Unmounted, Serving
<1>17. CASE PrepareMountAttempt
  BY <1>17, PrepareMoves, Zenon DEF PrepareMountAttempt, At, ApiUnchanged, CallInv, SessionInv,
     NextInv, Unmounted, Serving
<1>18. CASE PrepareBlocked
  BY <1>18, ThreadFields, Zenon DEF PrepareBlocked, At, Go, ApiUnchanged, CallInv, SessionInv,
     NextInv, ThreadType, Unmounted, Serving
<1>19. CASE PrepareTimed
  BY <1>19, TimedMoves, Zenon DEF PrepareTimed, At, ApiUnchanged, CallInv, SessionInv, NextInv,
     Unmounted, Serving
<1>20. CASE MountSession
  BY <1>20, MountMoves, Zenon DEF MountSession, At, ApiUnchanged, CallInv, SessionInv, NextInv,
     Unmounted, Serving
<1>21. CASE CreateSession
  BY <1>21, ThreadFields, Zenon DEF CreateSession, At, Fault, ApiUnchanged, CallInv,
     SessionInv, NextInv, ThreadType, Unmounted, Serving
<1>22. CASE Terminate
  BY <1>22, ThreadFields, Zenon DEF Terminate, At, NoWorker, NoApi, CallInv, SessionInv,
     NextInv, ThreadType, Unmounted, Serving
<1>23. CASE WaitForMountRetry
  BY <1>23, ThreadFields DEF WaitForMountRetry, At, ApiUnchanged, Announce, CallInv,
     SessionInv, NextInv, ThreadType, Unmounted, Serving
<1>24. CASE MountRetryInterval
  BY <1>24, ThreadFields, Zenon DEF MountRetryInterval, At, ApiUnchanged, CallInv, SessionInv,
     NextInv, ThreadType, Unmounted, Serving
<1>25. CASE WaitForRetryReset
  BY <1>25, ThreadFields, Zenon DEF WaitForRetryReset, At, Go, ApiUnchanged, CallInv,
     SessionInv, NextInv, ThreadType, Unmounted, Serving
<1>26. CASE ResetBlocked
  BY <1>26, ThreadFields, Zenon DEF ResetBlocked, At, Go, ApiUnchanged, CallInv, SessionInv,
     NextInv, ThreadType, Unmounted, Serving
<1>27. CASE ResetTimed
  BY <1>27, ThreadFields, Zenon DEF ResetTimed, At, Go, ApiUnchanged, AfterCleanup, Announce,
     CallInv, SessionInv, NextInv, ThreadType, Unmounted, Serving
<1>28. CASE RetryUnmountWithLimit
  BY <1>28, RetryMoves, Zenon DEF RetryUnmountWithLimit, At, ApiUnchanged, CallInv, SessionInv,
     NextInv, Unmounted, Serving
<1>29. CASE UnmountRetryInterval
  BY <1>29, IntervalMoves, Zenon DEF UnmountRetryInterval, At, ApiUnchanged, CallInv,
     SessionInv, NextInv, Unmounted, Serving
<1>30. CASE RetryUnmount
  BY <1>30, ThreadFields, Zenon DEF RetryUnmount, PendingAfterFailure, AfterCleanup, At, Go,
     Announce, ApiUnchanged, CallInv, SessionInv, NextInv, ThreadType, Unmounted,
     Serving
<1>31. CASE WorkerEnds
  BY <1>31, ThreadFields, Zenon DEF WorkerEnds, AfterCleanup, NoWorker, At, ApiUnchanged,
     CallInv, SessionInv, NextInv, ThreadType, Unmounted, Serving
<1>32. CASE FuseInit
  BY <1>32, ThreadFields, Zenon DEF FuseInit, AfterInit, ApiUnchanged, CallInv, SessionInv,
     NextInv, ThreadType, Unmounted, Serving
<1> QED
  BY <1>1, <1>2, <1>3, <1>4, <1>5, <1>6, <1>7, <1>8, <1>9, <1>10, <1>11, <1>12, <1>13,
     <1>14, <1>15, <1>16, <1>17, <1>18, <1>19, <1>20, <1>21, <1>22, <1>23, <1>24, <1>25,
     <1>26, <1>27, <1>28, <1>29, <1>30, <1>31, <1>32, Zenon DEF Next, ApiStep,
     WorkerStep, Aside

LEMMA MountInvStep ==
    ASSUME ThreadType, CallType, NextInv, CallInv, SessionInv, MountInv, Next
    PROVE  MountInv'
<1>1. CASE Aside
  BY <1>1, MountsStay, Zenon DEF MountInv, Failing
<1>2. ASSUME NEW u \in Users, StartUser(u) PROVE MountInv'
  BY <1>2, ThreadFields, Zenon DEF StartUser, StopLocked, Begin, NoApi, CallInv, SessionInv,
     MountInv, NextInv, Failing, ThreadType, Unmounted, Serving
<1>3. CASE Stop
  BY <1>3, ThreadFields, Zenon DEF Stop, StopLocked, Begin, NoApi, CallInv, SessionInv,
     MountInv, NextInv, Failing, ThreadType, Unmounted, Serving
<1>4. CASE StopForServiceExit
  BY <1>4, ThreadFields, Zenon DEF StopForServiceExit, StopLocked, Begin, NoApi, CallInv,
     SessionInv, MountInv, NextInv, Failing, ThreadType, Unmounted, Serving
<1>5. CASE Drain
  BY <1>5, ThreadFields, Zenon DEF Drain, AfterCleanup, NoApi, CallInv, SessionInv, MountInv,
     NextInv, Failing, ThreadType, Unmounted, Serving
<1>6. CASE StartUserLocked
  BY <1>6, ThreadFields, Zenon DEF StartUserLocked, AfterCleanup, NoWorker, CallInv,
     SessionInv, MountInv, NextInv, Failing, ThreadType, Unmounted, Serving
<1>7. CASE Check
  BY <1>7, CheckMoves, Zenon DEF Check, At, ApiUnchanged, CallInv, SessionInv, MountInv,
     NextInv, Failing, Unmounted, Serving
<1>8. CASE FinalizeRetiredRoots
  BY <1>8, ThreadFields, Zenon DEF FinalizeRetiredRoots, At, Go, ApiUnchanged, AfterCleanup,
     Announce, CallInv, SessionInv, MountInv, NextInv, Failing, ThreadType, Unmounted,
     Serving
<1>9. CASE SelectPendingUnmount
  BY <1>9, SelectMoves, Zenon DEF SelectPendingUnmount, At, ApiUnchanged, CallInv, SessionInv,
     MountInv, NextInv, Failing, Unmounted, Serving
<1>10. CASE UnmountTarget
  BY <1>10, UnmountMoves, Zenon DEF UnmountTarget, At, ApiUnchanged, CallInv, SessionInv,
     MountInv, NextInv, Failing, Unmounted, Serving
<1>11. CASE HasActiveSession
  BY <1>11, ThreadFields, Zenon DEF HasActiveSession, At, Go, ApiUnchanged, CallInv,
     SessionInv, MountInv, NextInv, Failing, ThreadType, Unmounted, Serving
<1>12. CASE WaitForSessionStop
  BY <1>12, ThreadFields, Zenon DEF WaitForSessionStop, At, Go, ApiUnchanged, CallInv,
     SessionInv, MountInv, NextInv, Failing, ThreadType, Unmounted, Serving
<1>13. CASE HandleActiveSession
  BY <1>13, HandleMoves, Zenon DEF HandleActiveSession, At, ApiUnchanged, CallInv, SessionInv,
     MountInv, NextInv, Failing, Unmounted, Serving
<1>14. CASE StopSession
  BY <1>14, ThreadFields, Zenon DEF StopSession, Unmount, At, Fault, ApiUnchanged, CallInv,
     SessionInv, MountInv, NextInv, Failing, ThreadType, Unmounted, Serving
<1>15. CASE EndSession
  BY <1>15, ThreadFields, Zenon DEF EndSession, At, ApiUnchanged, Announce, CallInv,
     SessionInv, MountInv, NextInv, Failing, ThreadType, Unmounted, Serving
<1>16. CASE Stopped
  BY <1>16, ThreadFields DEF Stopped, At, ApiUnchanged, CallInv, SessionInv, MountInv,
     NextInv, Failing, ThreadType, Unmounted, Serving
<1>17. CASE PrepareMountAttempt
  BY <1>17, PrepareMoves, Zenon DEF PrepareMountAttempt, At, ApiUnchanged, CallInv, SessionInv,
     MountInv, NextInv, Failing, Unmounted, Serving
<1>18. CASE PrepareBlocked
  BY <1>18, ThreadFields, Zenon DEF PrepareBlocked, At, Go, ApiUnchanged, CallInv, SessionInv,
     MountInv, NextInv, Failing, ThreadType, Unmounted, Serving
<1>19. CASE PrepareTimed
  BY <1>19, TimedMoves, Zenon DEF PrepareTimed, At, ApiUnchanged, CallInv, SessionInv,
     MountInv, NextInv, Failing, Unmounted, Serving
<1>20. CASE MountSession
  BY <1>20, MountMoves, Zenon DEF MountSession, At, ApiUnchanged, CallInv, SessionInv,
     MountInv, NextInv, Failing, Unmounted, Serving
<1>21. CASE CreateSession
  BY <1>21, ThreadFields, Zenon DEF CreateSession, At, Fault, ApiUnchanged, CallInv,
     SessionInv, MountInv, NextInv, Failing, ThreadType, Unmounted, Serving
<1>22. CASE Terminate
  BY <1>22, ThreadFields, Zenon DEF Terminate, At, NoWorker, NoApi, CallInv, SessionInv,
     MountInv, NextInv, Failing, ThreadType, Unmounted, Serving
<1>23. CASE WaitForMountRetry
  BY <1>23, ThreadFields DEF WaitForMountRetry, At, ApiUnchanged, Announce, CallInv,
     SessionInv, MountInv, NextInv, Failing, ThreadType, Unmounted, Serving
<1>24. CASE MountRetryInterval
  BY <1>24, ThreadFields, Zenon DEF MountRetryInterval, At, ApiUnchanged, CallInv, SessionInv,
     MountInv, NextInv, Failing, ThreadType, Unmounted, Serving
<1>25. CASE WaitForRetryReset
  BY <1>25, ThreadFields, Zenon DEF WaitForRetryReset, At, Go, ApiUnchanged, CallInv,
     SessionInv, MountInv, NextInv, Failing, ThreadType, Unmounted, Serving
<1>26. CASE ResetBlocked
  BY <1>26, ThreadFields, Zenon DEF ResetBlocked, At, Go, ApiUnchanged, CallInv, SessionInv,
     MountInv, NextInv, Failing, ThreadType, Unmounted, Serving
<1>27. CASE ResetTimed
  BY <1>27, ThreadFields, Zenon DEF ResetTimed, At, Go, ApiUnchanged, AfterCleanup, Announce,
     CallInv, SessionInv, MountInv, NextInv, Failing, ThreadType, Unmounted, Serving
<1>28. CASE RetryUnmountWithLimit
  BY <1>28, RetryMoves, Zenon DEF RetryUnmountWithLimit, At, ApiUnchanged, CallInv, SessionInv,
     MountInv, NextInv, Failing, Unmounted, Serving
<1>29. CASE UnmountRetryInterval
  BY <1>29, IntervalMoves, Zenon DEF UnmountRetryInterval, At, ApiUnchanged, CallInv,
     SessionInv, MountInv, NextInv, Failing, Unmounted, Serving
<1>30. CASE RetryUnmount
  BY <1>30, ThreadFields, Zenon DEF RetryUnmount, PendingAfterFailure, AfterCleanup, At, Go,
     Announce, ApiUnchanged, CallInv, SessionInv, MountInv, NextInv, Failing,
     ThreadType, Unmounted, Serving
<1>31. CASE WorkerEnds
  BY <1>31, ThreadFields, Zenon DEF WorkerEnds, AfterCleanup, NoWorker, At, ApiUnchanged,
     CallInv, SessionInv, MountInv, NextInv, Failing, ThreadType, Unmounted, Serving
<1>32. CASE FuseInit
  BY <1>32, ThreadFields, Zenon DEF FuseInit, AfterInit, ApiUnchanged, CallInv, SessionInv,
     MountInv, NextInv, Failing, ThreadType, Unmounted, Serving
<1> QED
  BY <1>1, <1>2, <1>3, <1>4, <1>5, <1>6, <1>7, <1>8, <1>9, <1>10, <1>11, <1>12, <1>13,
     <1>14, <1>15, <1>16, <1>17, <1>18, <1>19, <1>20, <1>21, <1>22, <1>23, <1>24, <1>25,
     <1>26, <1>27, <1>28, <1>29, <1>30, <1>31, <1>32, Zenon DEF Next, ApiStep,
     WorkerStep, Aside

LEMMA OwnerStep ==
    ASSUME ThreadType, NextInv, CallInv, SessionInv, MountInv, EveryMountHasAnOwner,
           Next
    PROVE  EveryMountHasAnOwner'
<1>1. CASE Aside
  BY <1>1, MountsStay, Zenon DEF EveryMountHasAnOwner
<1>2. ASSUME NEW u \in Users, StartUser(u) PROVE EveryMountHasAnOwner'
  BY <1>2, ThreadFields, Zenon DEF StartUser, StopLocked, Begin, NoApi, EveryMountHasAnOwner,
     CallInv, SessionInv, MountInv, NextInv, ThreadType, Unmounted, Serving
<1>3. CASE Stop
  BY <1>3, ThreadFields, Zenon DEF Stop, StopLocked, Begin, NoApi, EveryMountHasAnOwner,
     CallInv, SessionInv, MountInv, NextInv, ThreadType, Unmounted, Serving
<1>4. CASE StopForServiceExit
  BY <1>4, ThreadFields, Zenon DEF StopForServiceExit, StopLocked, Begin, NoApi,
     EveryMountHasAnOwner, CallInv, SessionInv, MountInv, NextInv, ThreadType,
     Unmounted, Serving
<1>5. CASE Drain
  BY <1>5, ThreadFields, Zenon DEF Drain, AfterCleanup, NoApi, EveryMountHasAnOwner, CallInv,
     SessionInv, MountInv, NextInv, ThreadType, Unmounted, Serving
<1>6. CASE StartUserLocked
  BY <1>6, ThreadFields, Zenon DEF StartUserLocked, AfterCleanup, NoWorker,
     EveryMountHasAnOwner, CallInv, SessionInv, MountInv, NextInv, ThreadType,
     Unmounted, Serving
<1>7. CASE Check
  BY <1>7, CheckMoves, Zenon DEF Check, At, ApiUnchanged, EveryMountHasAnOwner, CallInv,
     SessionInv, MountInv, NextInv, Unmounted, Serving
<1>8. CASE FinalizeRetiredRoots
  BY <1>8, ThreadFields, Zenon DEF FinalizeRetiredRoots, At, Go, ApiUnchanged, AfterCleanup,
     Announce, EveryMountHasAnOwner, CallInv, SessionInv, MountInv, NextInv, ThreadType,
     Unmounted, Serving
<1>9. CASE SelectPendingUnmount
  BY <1>9, SelectMoves, Zenon DEF SelectPendingUnmount, At, ApiUnchanged, EveryMountHasAnOwner,
     CallInv, SessionInv, MountInv, NextInv, Unmounted, Serving
<1>10. CASE UnmountTarget
  BY <1>10, UnmountMoves, Zenon DEF UnmountTarget, At, ApiUnchanged, EveryMountHasAnOwner,
     CallInv, SessionInv, MountInv, NextInv, Unmounted, Serving
<1>11. CASE HasActiveSession
  BY <1>11, ThreadFields, Zenon DEF HasActiveSession, At, Go, ApiUnchanged,
     EveryMountHasAnOwner, CallInv, SessionInv, MountInv, NextInv, ThreadType,
     Unmounted, Serving
<1>12. CASE WaitForSessionStop
  BY <1>12, ThreadFields, Zenon DEF WaitForSessionStop, At, Go, ApiUnchanged,
     EveryMountHasAnOwner, CallInv, SessionInv, MountInv, NextInv, ThreadType,
     Unmounted, Serving
<1>13. CASE HandleActiveSession
  BY <1>13, HandleMoves, Zenon DEF HandleActiveSession, At, ApiUnchanged, EveryMountHasAnOwner,
     CallInv, SessionInv, MountInv, NextInv, Unmounted, Serving
<1>14. CASE StopSession
  BY <1>14, ThreadFields, Zenon DEF StopSession, Unmount, At, Fault, ApiUnchanged,
     EveryMountHasAnOwner, CallInv, SessionInv, MountInv, NextInv, ThreadType,
     Unmounted, Serving
<1>15. CASE EndSession
  BY <1>15, ThreadFields, Zenon DEF EndSession, At, ApiUnchanged, Announce,
     EveryMountHasAnOwner, CallInv, SessionInv, MountInv, NextInv, ThreadType,
     Unmounted, Serving
<1>16. CASE Stopped
  BY <1>16, ThreadFields, Zenon DEF Stopped, At, ApiUnchanged, EveryMountHasAnOwner, CallInv,
     SessionInv, MountInv, NextInv, ThreadType, Unmounted, Serving
<1>17. CASE PrepareMountAttempt
  BY <1>17, PrepareMoves, Zenon DEF PrepareMountAttempt, At, ApiUnchanged,
     EveryMountHasAnOwner, CallInv, SessionInv, MountInv, NextInv, Unmounted, Serving
<1>18. CASE PrepareBlocked
  BY <1>18, ThreadFields, Zenon DEF PrepareBlocked, At, Go, ApiUnchanged, EveryMountHasAnOwner,
     CallInv, SessionInv, MountInv, NextInv, ThreadType, Unmounted, Serving
<1>19. CASE PrepareTimed
  BY <1>19, TimedMoves, Zenon DEF PrepareTimed, At, ApiUnchanged, EveryMountHasAnOwner,
     CallInv, SessionInv, MountInv, NextInv, Unmounted, Serving
<1>20. CASE MountSession
  BY <1>20, MountMoves, Zenon DEF MountSession, At, ApiUnchanged, EveryMountHasAnOwner,
     CallInv, SessionInv, MountInv, NextInv, Unmounted, Serving
<1>21. CASE CreateSession
  <2>1. CASE session' = "starting" /\ loop = NoUser
    <3>1. session = "none" /\ worker.user = user /\ user' = user /\ mounted' = mounted
          /\ pending' = pending
      BY <1>21, Zenon DEF CreateSession, At, ApiUnchanged, SessionInv, Unmounted
    <3>2. \A u \in mounted : u # loop
      BY <2>1, UsersAssumption, Zenon DEF MountInv
    <3>3. \A u \in mounted : u \in pending \/ u = user
      BY <3>1, <3>2, Zenon DEF EveryMountHasAnOwner
    <3> QED BY <2>1, <3>1, <3>3, Zenon DEF EveryMountHasAnOwner
  <2>2. CASE /\ worker' = [worker EXCEPT !.pc = "unmount", !.next = "mretry"]
             /\ UNCHANGED <<session, loop, loopExited>>
    BY <1>21, <2>2, ThreadFields, Zenon DEF CreateSession, At, ApiUnchanged, EveryMountHasAnOwner,
       ThreadType
  <2> QED BY <1>21, <2>1, <2>2 DEF CreateSession
<1>22. CASE Terminate
  BY <1>22, ThreadFields, Zenon DEF Terminate, At, NoWorker, NoApi, EveryMountHasAnOwner,
     CallInv, SessionInv, MountInv, NextInv, ThreadType, Unmounted, Serving
<1>23. CASE WaitForMountRetry
  BY <1>23, ThreadFields, Zenon DEF WaitForMountRetry, At, ApiUnchanged, Announce,
     EveryMountHasAnOwner, CallInv, SessionInv, MountInv, NextInv, ThreadType,
     Unmounted, Serving
<1>24. CASE MountRetryInterval
  BY <1>24, ThreadFields, Zenon DEF MountRetryInterval, At, ApiUnchanged, EveryMountHasAnOwner,
     CallInv, SessionInv, MountInv, NextInv, ThreadType, Unmounted, Serving
<1>25. CASE WaitForRetryReset
  BY <1>25, ThreadFields, Zenon DEF WaitForRetryReset, At, Go, ApiUnchanged,
     EveryMountHasAnOwner, CallInv, SessionInv, MountInv, NextInv, ThreadType,
     Unmounted, Serving
<1>26. CASE ResetBlocked
  BY <1>26, ThreadFields, Zenon DEF ResetBlocked, At, Go, ApiUnchanged, EveryMountHasAnOwner,
     CallInv, SessionInv, MountInv, NextInv, ThreadType, Unmounted, Serving
<1>27. CASE ResetTimed
  BY <1>27, ThreadFields, Zenon DEF ResetTimed, At, Go, ApiUnchanged, AfterCleanup, Announce,
     EveryMountHasAnOwner, CallInv, SessionInv, MountInv, NextInv, ThreadType,
     Unmounted, Serving
<1>28. CASE RetryUnmountWithLimit
  BY <1>28, RetryMoves, Zenon DEF RetryUnmountWithLimit, At, ApiUnchanged,
     EveryMountHasAnOwner, CallInv, SessionInv, MountInv, NextInv, Unmounted, Serving
<1>29. CASE UnmountRetryInterval
  BY <1>29, IntervalMoves, Zenon DEF UnmountRetryInterval, At, ApiUnchanged,
     EveryMountHasAnOwner, CallInv, SessionInv, MountInv, NextInv, Unmounted, Serving
<1>30. CASE RetryUnmount
  BY <1>30, ThreadFields DEF RetryUnmount, PendingAfterFailure, AfterCleanup, At, Go,
     Announce, ApiUnchanged, EveryMountHasAnOwner, CallInv, SessionInv, MountInv,
     NextInv, ThreadType, Unmounted, Serving
<1>31. CASE WorkerEnds
  BY <1>31, ThreadFields, Zenon DEF WorkerEnds, AfterCleanup, NoWorker, At, ApiUnchanged,
     EveryMountHasAnOwner, CallInv, SessionInv, MountInv, NextInv, ThreadType,
     Unmounted, Serving
<1>32. CASE FuseInit
  BY <1>32, ThreadFields, Zenon DEF FuseInit, AfterInit, ApiUnchanged, EveryMountHasAnOwner,
     CallInv, SessionInv, MountInv, NextInv, ThreadType, Unmounted, Serving
<1> QED
  BY <1>1, <1>2, <1>3, <1>4, <1>5, <1>6, <1>7, <1>8, <1>9, <1>10, <1>11, <1>12, <1>13,
     <1>14, <1>15, <1>16, <1>17, <1>18, <1>19, <1>20, <1>21, <1>22, <1>23, <1>24, <1>25,
     <1>26, <1>27, <1>28, <1>29, <1>30, <1>31, <1>32, Zenon DEF Next, ApiStep,
     WorkerStep, Aside

LEMMA ReadyStep ==
    ASSUME RootType, CallInv, SessionInv, ReadyMeansServing, Next
    PROVE  ReadyMeansServing'
<1>1. CASE Quiet
  BY <1>1, StateStays, Zenon DEF ReadyMeansServing
<1>2. ASSUME NEW u \in Users, StartUser(u) PROVE ReadyMeansServing'
  BY <1>2, NoRoots, EmptyTable, Zenon DEF StartUser, StopLocked, Begin, NoApi,
     ReadyMeansServing, RootType, SessionInv, Unmounted, Serving, CallInv
<1>3. ASSUME NEW u \in Users, NEW r \in Roots, AddRoot(u, r) PROVE ReadyMeansServing'
  BY <1>3, NoRoots, EmptyTable, Zenon DEF AddRoot, Begin, CarriedTasks, ReadyMeansServing,
     RootType, SessionInv, Unmounted, Serving, CallInv
<1>4. ASSUME NEW u \in Users, NEW r \in Roots, RemoveRoot(u, r) PROVE ReadyMeansServing'
  BY <1>4, NoRoots, EmptyTable DEF RemoveRoot, Begin, ReadyMeansServing, RootType,
     SessionInv, Unmounted, Serving, CallInv
<1>5. CASE Stop
  BY <1>5, NoRoots, EmptyTable, Zenon DEF Stop, StopLocked, Begin, NoApi, ReadyMeansServing,
     RootType, SessionInv, Unmounted, Serving, CallInv
<1>6. CASE StopForServiceExit
  BY <1>6, NoRoots, EmptyTable, Zenon DEF StopForServiceExit, StopLocked, Begin, NoApi,
     ReadyMeansServing, RootType, SessionInv, Unmounted, Serving, CallInv
<1>7. CASE Drain
  BY <1>7, NoRoots, EmptyTable, Zenon DEF Drain, AfterCleanup, NoApi, ReadyMeansServing,
     RootType, SessionInv, Unmounted, Serving, CallInv
<1>8. CASE StartUserLocked
  BY <1>8, NoRoots, EmptyTable, Zenon DEF StartUserLocked, AfterCleanup, NoWorker,
     ReadyMeansServing, RootType, SessionInv, Unmounted, Serving, CallInv
<1>9. CASE Schedule
  BY <1>9, NoRoots, EmptyTable DEF Schedule, IsWarmupCurrent, NoApi, ReadyMeansServing,
     RootType, SessionInv, Unmounted, Serving, CallInv
<1>10. ASSUME NEW t \in warm, NEW ok \in BOOLEAN, FinishRootWarmup(t, ok) PROVE ReadyMeansServing'
  BY <1>10, NoRoots, EmptyTable, Zenon DEF FinishRootWarmup, Announce, Fault, TasksAfter,
     ReadyMeansServing, RootType, SessionInv, Unmounted, Serving, CallInv
<1>11. ASSUME NEW r \in Roots, GracePasses(r) PROVE ReadyMeansServing'
  BY <1>11, NoRoots, EmptyTable, Zenon DEF GracePasses, ReadyMeansServing, RootType,
     SessionInv, Unmounted, Serving, CallInv
<1>12. CASE FinalizeRetiredRoots
  BY <1>12, NoRoots, EmptyTable, Zenon DEF FinalizeRetiredRoots, At, Go, ApiUnchanged,
     AfterCleanup, Announce, ReadyMeansServing, RootType, SessionInv, Unmounted,
     Serving, CallInv
<1>13. CASE SelectPendingUnmount
  BY <1>13, NoRoots, EmptyTable, Zenon DEF SelectPendingUnmount, At, Go, ApiUnchanged,
     ReadyMeansServing, RootType, SessionInv, Unmounted, Serving, CallInv
<1>14. CASE HandleActiveSession
  BY <1>14, NoRoots, EmptyTable, Zenon DEF HandleActiveSession, At, Go, ApiUnchanged,
     ReadyMeansServing, RootType, SessionInv, Unmounted, Serving, CallInv
<1>15. CASE EndSession
  BY <1>15, NoRoots, EmptyTable, Zenon DEF EndSession, At, ApiUnchanged, Announce,
     ReadyMeansServing, RootType, SessionInv, Unmounted, Serving, CallInv
<1>16. CASE PrepareMountAttempt
  BY <1>16, NoRoots, EmptyTable, Zenon DEF PrepareMountAttempt, At, Go, ApiUnchanged,
     ReadyMeansServing, RootType, SessionInv, Unmounted, Serving, CallInv
<1>17. CASE CreateSession
  BY <1>17, NoRoots, EmptyTable, Zenon DEF CreateSession, At, Fault, ApiUnchanged,
     ReadyMeansServing, RootType, SessionInv, Unmounted, Serving, CallInv
<1>18. CASE Terminate
  BY <1>18, NoRoots, EmptyTable, Zenon DEF Terminate, At, NoWorker, NoApi, ReadyMeansServing,
     RootType, SessionInv, Unmounted, Serving, CallInv
<1>19. CASE WaitForMountRetry
  BY <1>19, NoRoots, EmptyTable, Zenon DEF WaitForMountRetry, At, ApiUnchanged, Announce,
     ReadyMeansServing, RootType, SessionInv, Unmounted, Serving, CallInv
<1>20. CASE ResetTimed
  BY <1>20, NoRoots, EmptyTable, Zenon DEF ResetTimed, At, Go, ApiUnchanged, AfterCleanup,
     Announce, ReadyMeansServing, RootType, SessionInv, Unmounted, Serving, CallInv
<1>21. CASE RetryUnmountWithLimit
  BY <1>21, NoRoots, EmptyTable, Zenon DEF RetryUnmountWithLimit, At, Go, ApiUnchanged,
     ReadyMeansServing, RootType, SessionInv, Unmounted, Serving, CallInv
<1>22. CASE RetryUnmount
  BY <1>22, NoRoots, EmptyTable, Zenon DEF RetryUnmount, PendingAfterFailure, AfterCleanup, At,
     Go, Announce, ApiUnchanged, ReadyMeansServing, RootType, SessionInv, Unmounted,
     Serving, CallInv
<1>23. CASE WorkerEnds
  BY <1>23, NoRoots, EmptyTable, Zenon DEF WorkerEnds, AfterCleanup, NoWorker, At,
     ApiUnchanged, ReadyMeansServing, RootType, SessionInv, Unmounted, Serving, CallInv
<1>24. CASE FuseInit
  BY <1>24, NoRoots, Zenon DEF FuseInit, AfterInit, ApiUnchanged, HasActiveRoot, ReadyMeansServing
<1> QED
  BY <1>1, <1>2, <1>3, <1>4, <1>5, <1>6, <1>7, <1>8, <1>9, <1>10, <1>11, <1>12, <1>13,
     <1>14, <1>15, <1>16, <1>17, <1>18, <1>19, <1>20, <1>21, <1>22, <1>23, <1>24, Zenon
     DEF Next, ApiStep, WorkerStep, Quiet

LEMMA IdleStep ==
    ASSUME NumType, RootType, CallInv, Next
    PROVE  IdleIsAnnounced
<1>1. CASE Quiet
  BY <1>1, StateStays, Zenon DEF IdleIsAnnounced, IsIdle
<1>2. ASSUME NEW u \in Users, StartUser(u) PROVE IdleIsAnnounced
  BY <1>2, NoRoots, EmptyTable, Zenon DEF StartUser, StopLocked, Begin, NoApi, IdleIsAnnounced,
     IsIdle, NumType, CallInv, HasActiveRoot
<1>3. ASSUME NEW u \in Users, NEW r \in Roots, AddRoot(u, r) PROVE IdleIsAnnounced
  BY <1>3, NoRoots, EmptyTable, Zenon DEF AddRoot, Begin, CarriedTasks, IdleIsAnnounced,
     IsIdle, NumType, CallInv, HasActiveRoot
<1>4. ASSUME NEW u \in Users, NEW r \in Roots, RemoveRoot(u, r) PROVE IdleIsAnnounced
  BY <1>4, NoRoots, EmptyTable DEF RemoveRoot, Begin, IdleIsAnnounced, IsIdle, NumType,
     CallInv, HasActiveRoot
<1>5. CASE Stop
  BY <1>5, NoRoots, EmptyTable, Zenon DEF Stop, StopLocked, Begin, NoApi, IdleIsAnnounced,
     IsIdle, NumType, CallInv, HasActiveRoot
<1>6. CASE StopForServiceExit
  BY <1>6, NoRoots, EmptyTable, Zenon DEF StopForServiceExit, StopLocked, Begin, NoApi,
     IdleIsAnnounced, IsIdle, NumType, CallInv, HasActiveRoot
<1>7. CASE Drain
  BY <1>7, NoRoots, EmptyTable, Zenon DEF Drain, AfterCleanup, NoApi, IdleIsAnnounced, IsIdle,
     NumType, CallInv, HasActiveRoot
<1>8. CASE StartUserLocked
  BY <1>8, NoRoots, EmptyTable, Zenon DEF StartUserLocked, AfterCleanup, NoWorker,
     IdleIsAnnounced, IsIdle, NumType, CallInv, HasActiveRoot
<1>9. CASE Schedule
  BY <1>9, NoRoots, EmptyTable DEF Schedule, IsWarmupCurrent, NoApi, IdleIsAnnounced,
     IsIdle, NumType, CallInv, HasActiveRoot
<1>10. ASSUME NEW t \in warm, NEW ok \in BOOLEAN, FinishRootWarmup(t, ok) PROVE IdleIsAnnounced
  BY <1>10, NoRoots, EmptyTable DEF FinishRootWarmup, Announce, Fault, TasksAfter,
     IdleIsAnnounced, IsIdle, NumType, CallInv, HasActiveRoot
<1>11. ASSUME NEW r \in Roots, GracePasses(r) PROVE IdleIsAnnounced
  BY <1>11, NoRoots, EmptyTable, Zenon DEF GracePasses, IdleIsAnnounced, IsIdle, NumType,
     CallInv, HasActiveRoot
<1>12. CASE FinalizeRetiredRoots
  <2> DEFINE gone == {r \in DOMAIN roots : Expired(r)}
  <2> SUFFICES ASSUME ~IsIdle, IsIdle', ~shutdown' PROVE announced' # announced
    BY Zenon DEF IdleIsAnnounced
  <2>1. /\ roots' = << >> /\ session = "none" /\ pending = {} /\ pendingWarm = 0 /\ ~shutdown
        /\ state' = "IDLE"
    BY <1>12, Zenon DEF FinalizeRetiredRoots, ApiUnchanged, IsIdle
  <2>2. roots # << >>
    BY <1>12, <2>1, NoRoots, Zenon DEF FinalizeRetiredRoots, ApiUnchanged, IsIdle
  <2>3. gone = DOMAIN roots /\ gone # {}
    BY <1>12, <2>1, <2>2, NoRoots, EmptyTable, Zenon DEF FinalizeRetiredRoots
  <2> QED BY <1>12, <2>1, <2>3 DEF FinalizeRetiredRoots, Announce, NumType
<1>13. CASE SelectPendingUnmount
  BY <1>13, NoRoots, EmptyTable, Zenon DEF SelectPendingUnmount, At, Go, ApiUnchanged,
     IdleIsAnnounced, IsIdle, NumType, CallInv, HasActiveRoot
<1>14. CASE HandleActiveSession
  BY <1>14, NoRoots, EmptyTable, Zenon DEF HandleActiveSession, At, Go, ApiUnchanged,
     IdleIsAnnounced, IsIdle, NumType, CallInv, HasActiveRoot
<1>15. CASE EndSession
  BY <1>15, NoRoots, EmptyTable DEF EndSession, At, ApiUnchanged, Announce,
     IdleIsAnnounced, IsIdle, NumType, CallInv, HasActiveRoot
<1>16. CASE PrepareMountAttempt
  BY <1>16, NoRoots, EmptyTable, Zenon DEF PrepareMountAttempt, At, Go, ApiUnchanged,
     IdleIsAnnounced, IsIdle, NumType, CallInv, HasActiveRoot
<1>17. CASE CreateSession
  BY <1>17, NoRoots, EmptyTable, Zenon DEF CreateSession, At, Fault, ApiUnchanged,
     IdleIsAnnounced, IsIdle, NumType, CallInv, HasActiveRoot
<1>18. CASE Terminate
  BY <1>18, NoRoots, EmptyTable, Zenon DEF Terminate, At, NoWorker, NoApi, IdleIsAnnounced,
     IsIdle, NumType, CallInv, HasActiveRoot
<1>19. CASE WaitForMountRetry
  BY <1>19, NoRoots, EmptyTable DEF WaitForMountRetry, At, ApiUnchanged, Announce,
     IdleIsAnnounced, IsIdle, NumType, CallInv, HasActiveRoot
<1>20. CASE ResetTimed
  <2> DEFINE gone == {r \in DOMAIN roots : Expired(r)}
  <2> SUFFICES ASSUME ~IsIdle, IsIdle', ~shutdown' PROVE announced' # announced
    BY Zenon DEF IdleIsAnnounced
  <2>1. /\ roots' = << >> /\ session = "none" /\ pending = {} /\ pendingWarm = 0 /\ ~shutdown
        /\ state' = "IDLE"
    BY <1>20, Zenon DEF ResetTimed, ApiUnchanged, IsIdle
  <2>2. announced' # announced \/ roots # << >>
    BY <1>20, <2>1, NoRoots DEF ResetTimed, ApiUnchanged, IsIdle, Announce, NumType
  <2>3. roots # << >> => gone = DOMAIN roots /\ roots' # roots
    BY <1>20, <2>1, NoRoots, Zenon DEF ResetTimed
  <2> QED BY <1>20, <2>2, <2>3 DEF ResetTimed, Announce, NumType
<1>21. CASE RetryUnmountWithLimit
  BY <1>21, NoRoots, EmptyTable DEF RetryUnmountWithLimit, At, Go, ApiUnchanged,
     IdleIsAnnounced, IsIdle, NumType, CallInv, HasActiveRoot
<1>22. CASE RetryUnmount
  BY <1>22, NoRoots, EmptyTable DEF RetryUnmount, PendingAfterFailure, AfterCleanup, At,
     Go, Announce, ApiUnchanged, IdleIsAnnounced, IsIdle, NumType, CallInv,
     HasActiveRoot
<1>23. CASE WorkerEnds
  BY <1>23, NoRoots, EmptyTable, Zenon DEF WorkerEnds, AfterCleanup, NoWorker, At,
     ApiUnchanged, IdleIsAnnounced, IsIdle, NumType, CallInv, HasActiveRoot
<1>24. CASE FuseInit
  BY <1>24, NoRoots, EmptyTable, Zenon DEF FuseInit, AfterInit, ApiUnchanged, IdleIsAnnounced,
     IsIdle, NumType, CallInv, HasActiveRoot
<1> QED
  BY <1>1, <1>2, <1>3, <1>4, <1>5, <1>6, <1>7, <1>8, <1>9, <1>10, <1>11, <1>12, <1>13,
     <1>14, <1>15, <1>16, <1>17, <1>18, <1>19, <1>20, <1>21, <1>22, <1>23, <1>24, Zenon
     DEF Next, ApiStep, WorkerStep, Quiet

(***************************************************************************)
(* The warm-ups.                                                           *)
(***************************************************************************)
WarmOf(W, r) == {t \in W : t.root = r}

CountInv ==
    /\ IsFiniteSet(warm) /\ pendingWarm = Cardinality(warm)
    /\ \A t \in warm : t.epoch \in Int /\ t.epoch <= epoch
(* A root counts its warm-ups until Stop takes the table away; then        *)
(* nothing starts before they have ended.                                  *)
StoppedInv ==
    /\ ~started => roots = << >> /\ warm = {}
    /\ api.pc \in {"join", "drain"} => roots = << >>
TaskInv ==
    api.pc \notin {"join", "drain"} =>
        \A r \in Roots :
            Cardinality(WarmOf(warm, r)) = IF r \in DOMAIN roots THEN roots[r].tasks ELSE 0
(* RemoveRoot waits for the warm-ups of its root; a root that is to be     *)
(* warmed up has a new epoch.                                              *)
EpochInv ==
    /\ \A r \in DOMAIN roots :
         /\ roots[r].epoch <= epoch
         /\ roots[r].st = "RETIRING" /\ roots[r].tasks # 0
            => api.pc = "waitwarm" /\ r \in api.todo
    /\ api.pc = "schedule" =>
         \A r \in api.todo \cap DOMAIN roots, t \in warm :
             t.root = r => t.epoch < roots[r].epoch
WarmInv == CountInv /\ StoppedInv /\ TaskInv /\ EpochInv

LEMMA NoWarmups ==
    /\ IsFiniteSet({}) /\ Cardinality({}) = 0
    /\ \A r : Cardinality(WarmOf({}, r)) = 0
<1>1. \A r : WarmOf({}, r) = {}
  BY Zenon DEF WarmOf
<1> QED BY <1>1, FS_EmptySet

LEMMA WarmupBegins ==
    ASSUME NEW W, IsFiniteSet(W), NEW t, t \notin W
    PROVE  /\ IsFiniteSet(W \cup {t}) /\ Cardinality(W \cup {t}) = Cardinality(W) + 1
           /\ Cardinality(WarmOf(W \cup {t}, t.root)) = Cardinality(WarmOf(W, t.root)) + 1
           /\ \A r : r # t.root => WarmOf(W \cup {t}, r) = WarmOf(W, r)
<1>1. WarmOf(W \cup {t}, t.root) = WarmOf(W, t.root) \cup {t} /\ t \notin WarmOf(W, t.root)
  BY Zenon DEF WarmOf
<1>2. IsFiniteSet(WarmOf(W, t.root))
  BY FS_Subset, Zenon DEF WarmOf
<1>3. \A r : r # t.root => WarmOf(W \cup {t}, r) = WarmOf(W, r)
  BY Zenon DEF WarmOf
<1> QED BY <1>1, <1>2, <1>3, FS_AddElement, Zenon

LEMMA WarmupEnds ==
    ASSUME NEW W, IsFiniteSet(W), NEW t \in W
    PROVE  /\ IsFiniteSet(W \ {t}) /\ Cardinality(W \ {t}) = Cardinality(W) - 1
           /\ Cardinality(W) \in Nat /\ Cardinality(W) > 0
           /\ Cardinality(WarmOf(W \ {t}, t.root)) = Cardinality(WarmOf(W, t.root)) - 1
           /\ Cardinality(WarmOf(W, t.root)) \in Nat /\ Cardinality(WarmOf(W, t.root)) > 0
           /\ \A r : r # t.root => WarmOf(W \ {t}, r) = WarmOf(W, r)
<1>1. WarmOf(W \ {t}, t.root) = WarmOf(W, t.root) \ {t} /\ t \in WarmOf(W, t.root)
  BY Zenon DEF WarmOf
<1>2. IsFiniteSet(WarmOf(W, t.root))
  BY FS_Subset, Zenon DEF WarmOf
<1>3. \A r : r # t.root => WarmOf(W \ {t}, r) = WarmOf(W, r)
  BY Zenon DEF WarmOf
<1>4. ASSUME NEW S, IsFiniteSet(S), t \in S
      PROVE  /\ IsFiniteSet(S \ {t}) /\ Cardinality(S \ {t}) = Cardinality(S) - 1
             /\ Cardinality(S) \in Nat /\ Cardinality(S) > 0
  <2>1. Cardinality(S) \in Nat /\ Cardinality(S) # 0
    BY <1>4, FS_CardinalityType, FS_EmptySet, Zenon
  <2> QED BY <1>4, <2>1, FS_RemoveElement
<1> QED BY <1>1, <1>2, <1>3, <1>4, Zenon


LEMMA WarmStep == ASSUME NumType, RootType, CallType, CallInv, WarmInv, Next PROVE WarmInv'
<1> USE DEF WarmInv
<1>1. CASE UNCHANGED <<warm, pendingWarm, roots, epoch, started, api>>
  BY <1>1, Zenon DEF CountInv, StoppedInv, TaskInv, EpochInv
<1>2. ASSUME NEW S \in SUBSET DOMAIN roots, roots' = [r \in S |-> roots[r]],
             \A r \in DOMAIN roots \ S : roots[r].tasks = 0,
             UNCHANGED <<warm, pendingWarm, epoch, started, api>>
      PROVE  WarmInv'
  <2>1. CountInv' /\ EpochInv'
    BY <1>2, Zenon DEF CountInv, EpochInv
  <2>2. DOMAIN roots = {} => roots' = << >>
    BY <1>2, NoRoots, Zenon
  <2>3. StoppedInv'
    BY <1>2, <2>2, NoRoots, Zenon DEF StoppedInv
  <2>4. TaskInv'
    BY <1>2, Zenon DEF TaskInv
  <2> QED BY <2>1, <2>3, <2>4
<1>3. CASE (\E u \in Users : StartUser(u)) \/ Stop \/ StopForServiceExit
  <2>1. UNCHANGED <<warm, pendingWarm, epoch, started>>
    BY <1>3, Zenon DEF StartUser, Stop, StopForServiceExit
  <2>2. api.pc = "idle"
    BY <1>3, Zenon DEF StartUser, Stop, StopForServiceExit, Begin
  <2>5. PICK op, u : StopLocked(op, u)
    <3>1. CASE \E v \in Users : StartUser(v)
      BY <3>1, Zenon DEF StartUser
    <3>2. CASE Stop
      BY <3>2, Zenon DEF Stop
    <3>3. CASE StopForServiceExit
      BY <3>3, Zenon DEF StopForServiceExit
    <3> QED BY <1>3, <3>1, <3>2, <3>3
  <2>3. CASE ~started
    <3>1. roots' = roots /\ api'.pc \in {"idle", "begin"}
      <4>1. NoApi.pc = "idle" /\ [NoApi EXCEPT !.pc = "begin", !.op = op, !.user = u].pc = "begin"
        BY Zenon DEF NoApi
      <4> QED BY <2>3, <2>5, <4>1, Zenon DEF StopLocked
    <3> QED BY <2>1, <2>2, <3>1 DEF CountInv, StoppedInv, TaskInv, EpochInv
  <2>4. CASE started
    <3>1. roots' = << >> /\ api'.pc = "join"
      BY <2>4, <2>5, Zenon DEF StopLocked, NoApi
    <3> QED BY <2>1, <2>4, <3>1, NoRoots DEF CountInv, StoppedInv, TaskInv, EpochInv
  <2> QED BY <2>3, <2>4
<1>4. CASE Join
  <2>1. api.pc = "join" /\ api'.pc = "drain"
    BY <1>4, CallFields, Zenon DEF Join, CallType
  <2>2. UNCHANGED <<warm, pendingWarm, roots, epoch, started>>
    BY <1>4, Zenon DEF Join
  <2> QED BY <2>1, <2>2, NoRoots DEF CountInv, StoppedInv, TaskInv, EpochInv
<1>5. CASE Drain
  <2>1. UNCHANGED <<warm, pendingWarm, roots, epoch>> /\ api.pc = "drain"
    BY <1>5, Zenon DEF Drain
  <2>2. warm = {} /\ roots = << >>
    BY <1>5, <2>1, FS_EmptySet, Zenon DEF Drain, WarmupsDone, CountInv, StoppedInv
  <2>3. api'.pc \in {"idle", "begin"}
    BY <1>5, CallFields DEF Drain, NoApi, CallType
  <2> QED BY <2>1, <2>2, <2>3, NoRoots, NoWarmups DEF CountInv, StoppedInv, TaskInv, EpochInv
<1>6. CASE StartUserLocked
  <2>1. UNCHANGED <<warm, pendingWarm>> /\ warm = {} /\ started' = TRUE
    BY <1>6, Zenon DEF StartUserLocked, StoppedInv, CallInv
  <2>2. PICK rs \in SUBSET Roots : \E num \in [rs -> 1..Cardinality(rs)] :
          /\ roots' = [r \in rs |-> [st |-> "WARMING", epoch |-> epoch + num[r],
                                     tasks |-> 0, over |-> FALSE]]
          /\ epoch' = epoch + Cardinality(rs)
          /\ api' = [api EXCEPT !.pc = "schedule", !.todo = rs]
    BY <1>6, Zenon DEF StartUserLocked
  <2>3. PICK num \in [rs -> 1..Cardinality(rs)] :
          /\ roots' = [r \in rs |-> [st |-> "WARMING", epoch |-> epoch + num[r],
                                     tasks |-> 0, over |-> FALSE]]
          /\ epoch' = epoch + Cardinality(rs)
          /\ api' = [api EXCEPT !.pc = "schedule", !.todo = rs]
    BY <2>2, Zenon
  <2>4. api'.pc = "schedule"
    BY <2>3, CallFields, Zenon DEF CallType
  <2>5. Cardinality(rs) \in Nat
    BY RootsAssumption, FS_Subset, FS_CardinalityType, Zenon
  <2>6. \A r \in DOMAIN roots' : /\ roots'[r].epoch <= epoch' /\ roots'[r].tasks = 0
    BY <2>3, <2>5 DEF NumType
  <2>7. CountInv' /\ StoppedInv' /\ EpochInv'
    BY <2>1, <2>4, <2>6, NoWarmups, Zenon DEF CountInv, StoppedInv, EpochInv
  <2>8. TaskInv'
    BY <2>1, <2>6, NoWarmups, Zenon DEF TaskInv
  <2> QED BY <2>7, <2>8
<1>7. CASE Schedule
  <2>1. UNCHANGED <<epoch, started>> /\ api.pc = "schedule"
    BY <1>7, Zenon DEF Schedule
  <2>2. CASE api' = NoApi /\ UNCHANGED <<roots, warm, pendingWarm>>
    <3>1. api'.pc = "idle"
      BY <2>2, CallFields, Zenon DEF NoApi
    <3> QED BY <2>1, <2>2, <3>1 DEF CountInv, StoppedInv, TaskInv, EpochInv
  <2>3. ASSUME NEW r \in api.todo, api' = [api EXCEPT !.todo = @ \ {r}],
               UNCHANGED <<roots, warm, pendingWarm>>
        PROVE  WarmInv'
    <3>1. api'.pc = "schedule" /\ api'.todo = api.todo \ {r}
      BY <2>1, <2>3, CallFields, Zenon DEF CallType
    <3> QED BY <2>1, <2>3, <3>1 DEF CountInv, StoppedInv, TaskInv, EpochInv
  <2>4. ASSUME NEW r \in api.todo, api' = [api EXCEPT !.todo = @ \ {r}],
               r \in DOMAIN roots, roots[r].st = "WARMING",
               roots' = [roots EXCEPT ![r].tasks = @ + 1],
               warm' = warm \cup {[user |-> api.user, root |-> r, epoch |-> roots[r].epoch]},
               pendingWarm' = pendingWarm + 1
        PROVE  WarmInv'
    <3> DEFINE t == [user |-> api.user, root |-> r, epoch |-> roots[r].epoch]
    <3>1. api'.pc = "schedule" /\ api'.todo = api.todo \ {r}
      BY <2>1, <2>4, CallFields, Zenon DEF CallType
    <3>2. t.root = r /\ t.epoch = roots[r].epoch /\ t \notin warm
      BY <2>1, <2>4 DEF EpochInv, RootType, IsRoot
    <3>3. t.epoch \in Int /\ t.epoch <= epoch /\ warm' = warm \cup {t}
      BY <2>4, <3>2, Zenon DEF EpochInv, RootType, IsRoot
    <3>4. /\ DOMAIN roots' = DOMAIN roots
          /\ \A q \in DOMAIN roots : q # r => roots'[q] = roots[q]
          /\ roots'[r].tasks = roots[r].tasks + 1 /\ roots'[r].epoch = roots[r].epoch
          /\ roots'[r].st = "WARMING"
      <4> DEFINE x == [roots[r] EXCEPT !.tasks = @ + 1]
      <4>1. x.tasks = roots[r].tasks + 1 /\ x.epoch = roots[r].epoch /\ x.st = "WARMING"
        BY <2>4 DEF RootType, IsRoot, RootFields
      <4>2. roots' = [roots EXCEPT ![r] = x]
        BY <2>4, Zenon DEF RootType
      <4> HIDE DEF x
      <4> QED BY <2>4, <4>1, <4>2 DEF RootType
    <3> HIDE DEF t
    <3>5. CountInv'
      <4>1. IsFiniteSet(warm') /\ Cardinality(warm') = Cardinality(warm) + 1
        BY <3>2, <3>3, WarmupBegins, Zenon DEF CountInv
      <4> QED BY <2>1, <2>4, <3>3, <4>1 DEF CountInv
    <3>6. StoppedInv'
      BY <2>1, <2>4, <3>1, NoRoots, Zenon DEF StoppedInv
    <3>7. TaskInv'
      <4>1. IsFiniteSet(warm)
        BY DEF CountInv
      <4>2. /\ Cardinality(WarmOf(warm', r)) = Cardinality(WarmOf(warm, r)) + 1
            /\ \A q : q # r => WarmOf(warm', q) = WarmOf(warm, q)
        BY <3>2, <3>3, <4>1, WarmupBegins
      <4>3. \A q \in Roots : Cardinality(WarmOf(warm, q)) =
                              IF q \in DOMAIN roots THEN roots[q].tasks ELSE 0
        BY <2>1, Zenon DEF TaskInv
      <4>4. ASSUME NEW q \in Roots
            PROVE  Cardinality(WarmOf(warm', q)) =
                     IF q \in DOMAIN roots' THEN roots'[q].tasks ELSE 0
        <5>1. CASE q = r
          BY <2>4, <3>4, <4>2, <4>3, <5>1, Zenon
        <5>2. CASE q # r
          BY <3>4, <4>2, <4>3, <5>2, Zenon
        <5> QED BY <5>1, <5>2
      <4> QED BY <4>4 DEF TaskInv
    <3>8. EpochInv'
      <4>1. ASSUME NEW q \in DOMAIN roots'
            PROVE  /\ roots'[q].epoch <= epoch'
                   /\ roots'[q].st = "RETIRING" /\ roots'[q].tasks # 0
                      => api'.pc = "waitwarm" /\ q \in api'.todo
        BY <2>1, <2>4, <3>4, Zenon DEF EpochInv
      <4>2. ASSUME NEW q \in api'.todo \cap DOMAIN roots', NEW w \in warm', w.root = q
            PROVE  w.epoch < roots'[q].epoch
        <5>1. q # r /\ q \in api.todo /\ q \in DOMAIN roots /\ w \in warm
          BY <3>1, <3>2, <3>3, <3>4, <4>2, Zenon
        <5> QED BY <2>1, <3>4, <4>2, <5>1 DEF EpochInv
      <4> QED BY <4>1, <4>2 DEF EpochInv
    <3> QED BY <3>5, <3>6, <3>7, <3>8
  <2> QED BY <1>7, <2>2, <2>3, <2>4 DEF Schedule, IsWarmupCurrent
<1>8. ASSUME NEW u \in Users, NEW r \in Roots, AddRoot(u, r) PROVE WarmInv'
  <2>1. UNCHANGED <<warm, pendingWarm, started>> /\ api.pc = "idle"
    BY <1>8, Zenon DEF AddRoot, Begin
  <2>2. CASE started /\ user = u /\ ~shutdown
    <3>1. /\ epoch' = epoch + 1 /\ api'.pc = "schedule" /\ api'.todo = {r}
          /\ DOMAIN roots' = DOMAIN roots \cup {r}
          /\ \A q \in DOMAIN roots : q # r => roots'[q] = roots[q]
          /\ roots'[r].st = "WARMING" /\ roots'[r].epoch = epoch + 1
          /\ roots'[r].tasks = CarriedTasks(r)
      BY <1>8, <2>2 DEF AddRoot
    <3>2. CountInv'
      BY <2>1, <3>1 DEF CountInv, NumType
    <3>3. StoppedInv'
      BY <2>1, <2>2, <3>1, Zenon DEF StoppedInv
    <3>4. TaskInv'
      BY <2>1, <3>1, Zenon DEF TaskInv, CarriedTasks
    <3>5. EpochInv'
      BY <2>1, <3>1 DEF EpochInv, CountInv, NumType, RootType, IsRoot
    <3> QED BY <3>2, <3>3, <3>4, <3>5
  <2> QED BY <1>1, <1>8, <2>1, <2>2 DEF AddRoot
<1>9. ASSUME NEW u \in Users, NEW r \in Roots, RemoveRoot(u, r) PROVE WarmInv'
  <2>1. UNCHANGED <<warm, pendingWarm, started>> /\ api.pc = "idle"
    BY <1>9, Zenon DEF RemoveRoot, Begin
  <2>2. CASE user = u /\ r \in DOMAIN roots /\ roots[r].st # "RETIRING"
    <3>1. epoch' = epoch + 1 /\ api'.pc = "waitwarm" /\ api'.todo = {r}
      BY <1>9, <2>2 DEF RemoveRoot
    <3>2. /\ DOMAIN roots' = DOMAIN roots
          /\ \A q \in DOMAIN roots : q # r => roots'[q] = roots[q]
          /\ roots'[r].tasks = roots[r].tasks /\ roots'[r].epoch = epoch + 1
      <4> DEFINE x == [roots[r] EXCEPT !.st = "RETIRING", !.epoch = epoch + 1,
                                       !.over = FALSE]
      <4>1. x.tasks = roots[r].tasks /\ x.epoch = epoch + 1
        BY <2>2 DEF RootType, IsRoot, RootFields
      <4>2. roots' = [roots EXCEPT ![r] = x]
        BY <1>9, <2>2 DEF RemoveRoot, RootType
      <4> HIDE DEF x
      <4> QED BY <2>2, <4>1, <4>2 DEF RootType
    <3>3. CountInv'
      BY <2>1, <3>1 DEF CountInv, NumType
    <3>4. StoppedInv'
      BY <2>1, <2>2, <3>1, <3>2, NoRoots DEF StoppedInv
    <3>5. TaskInv'
      BY <2>1, <3>1, <3>2, Zenon DEF TaskInv
    <3>6. EpochInv'
      BY <2>1, <3>1, <3>2 DEF EpochInv, NumType, RootType, IsRoot
    <3> QED BY <3>3, <3>4, <3>5, <3>6
  <2> QED BY <1>1, <1>9, <2>1, <2>2 DEF RemoveRoot
<1>10. CASE RemoveWaits
  <2>1. /\ api.pc = "waitwarm" /\ api'.pc = "idle"
        /\ \A r \in api.todo : r \in DOMAIN roots => roots[r].tasks = 0
    BY <1>10, CallFields, Zenon DEF RemoveWaits, NoApi
  <2>2. UNCHANGED <<warm, pendingWarm, roots, epoch, started>>
    BY <1>10, Zenon DEF RemoveWaits
  <2> QED BY <2>1, <2>2 DEF CountInv, StoppedInv, TaskInv, EpochInv
<1>11. ASSUME NEW t \in warm, NEW ok \in BOOLEAN, FinishRootWarmup(t, ok) PROVE WarmInv'
  <2>1. UNCHANGED <<epoch, started, api>> /\ warm' = warm \ {t} /\ started
    BY <1>11, Zenon DEF FinishRootWarmup, StoppedInv
  <2>2. pendingWarm' = pendingWarm - 1
    BY <1>11, WarmupEnds, Zenon DEF FinishRootWarmup, CountInv
  <2>3. CountInv'
    BY <2>1, <2>2, WarmupEnds, Zenon DEF CountInv
  <2>6. /\ Cardinality(WarmOf(warm', t.root)) = Cardinality(WarmOf(warm, t.root)) - 1
        /\ Cardinality(WarmOf(warm, t.root)) > 0
        /\ \A r : r # t.root => WarmOf(warm', r) = WarmOf(warm, r)
    BY <2>1, WarmupEnds, Zenon DEF CountInv
  <2>4. CASE t.root \in DOMAIN roots /\ roots[t.root].tasks > 0
    <3>1. /\ DOMAIN roots' = DOMAIN roots
          /\ \A q \in DOMAIN roots : q # t.root => roots'[q] = roots[q]
          /\ roots'[t.root].tasks = roots[t.root].tasks - 1
          /\ roots'[t.root].epoch = roots[t.root].epoch
          /\ roots'[t.root].st = "RETIRING" => roots[t.root].st = "RETIRING"
      <4> DEFINE x == [roots[t.root] EXCEPT
                         !.tasks = TasksAfter(t),
                         !.st = IF user = t.user /\ roots[t.root].epoch = t.epoch
                                   /\ @ = "WARMING" /\ ok THEN "READY" ELSE @]
      <4>1. /\ x.tasks = roots[t.root].tasks - 1 /\ x.epoch = roots[t.root].epoch
            /\ x.st = "RETIRING" => roots[t.root].st = "RETIRING"
        BY <2>4 DEF TasksAfter, RootType, IsRoot, RootFields
      <4>2. roots' = [roots EXCEPT ![t.root] = x]
        BY <1>11, <2>4, Zenon DEF FinishRootWarmup, RootType
      <4> HIDE DEF x
      <4> QED BY <2>4, <4>1, <4>2 DEF RootType
    <3>2. StoppedInv'
      BY <2>1, <2>4, <3>1, NoRoots, Zenon DEF StoppedInv
    <3>3. TaskInv'
      BY <2>1, <2>4, <2>6, <3>1, Zenon DEF TaskInv
    <3>4. EpochInv'
      <4>1. ASSUME NEW q \in DOMAIN roots'
            PROVE  /\ roots'[q].epoch <= epoch'
                   /\ roots'[q].st = "RETIRING" /\ roots'[q].tasks # 0
                      => api'.pc = "waitwarm" /\ q \in api'.todo
        BY <2>1, <2>4, <3>1 DEF EpochInv
      <4>2. ASSUME NEW q \in api'.todo \cap DOMAIN roots', NEW w \in warm', w.root = q,
                   api'.pc = "schedule"
            PROVE  w.epoch < roots'[q].epoch
        BY <2>1, <3>1, <4>2, Zenon DEF EpochInv
      <4> QED BY <4>1, <4>2 DEF EpochInv
    <3> QED BY <2>3, <3>2, <3>3, <3>4
  <2>5. CASE ~(t.root \in DOMAIN roots /\ roots[t.root].tasks > 0)
    <3>1. roots' = roots
      BY <1>11, <2>5, Zenon DEF FinishRootWarmup
    <3>2. api.pc \in {"join", "drain"} \/ t.root \notin Roots
      BY <2>5, <2>6 DEF TaskInv
    <3>3. TaskInv'
      BY <2>1, <2>6, <3>1, <3>2, Zenon DEF TaskInv
    <3> QED BY <2>1, <2>3, <3>1, <3>3 DEF StoppedInv, EpochInv
  <2> QED BY <2>4, <2>5
<1>12. ASSUME NEW r \in Roots, GracePasses(r) PROVE WarmInv'
  <2>1. UNCHANGED <<warm, pendingWarm, epoch, started, api>> /\ r \in DOMAIN roots
    BY <1>12 DEF GracePasses
  <2>2. /\ DOMAIN roots' = DOMAIN roots
        /\ \A q \in DOMAIN roots : /\ roots'[q].tasks = roots[q].tasks
                                   /\ roots'[q].st = roots[q].st
                                   /\ roots'[q].epoch = roots[q].epoch
    BY <1>12 DEF GracePasses, RootType, IsRoot, RootFields
  <2> QED BY <2>1, <2>2, NoRoots DEF CountInv, StoppedInv, TaskInv, EpochInv
<1>13. CASE Terminate
  BY <1>13, NoRoots, NoWarmups, Zenon DEF Terminate, NoApi, CountInv, StoppedInv, TaskInv,
     EpochInv
<1>14. CASE FinalizeRetiredRoots
  <2>1. UNCHANGED <<warm, pendingWarm, epoch, started, api>>
    BY <1>14, Zenon DEF FinalizeRetiredRoots, ApiUnchanged
  <2> QED BY <1>2, <1>14, <2>1 DEF FinalizeRetiredRoots, Expired
<1>15. CASE ResetTimed
  <2>1. UNCHANGED <<warm, pendingWarm, epoch, started, api>>
    BY <1>15, Zenon DEF ResetTimed, ApiUnchanged
  <2> QED BY <1>1, <1>2, <1>15, <2>1 DEF ResetTimed, Expired
<1>16. CASE (WorkerStep \/ FuseInit \/ LoopExits)
            /\ ~FinalizeRetiredRoots /\ ~ResetTimed /\ ~Terminate
  <2>1. UNCHANGED <<warm, pendingWarm, epoch, started, api>>
    BY <1>16, CallsStay, Zenon
  <2>2. roots' = roots
    BY <1>16, Zenon
       DEF WorkerStep, Check, SelectPendingUnmount, UnmountTarget, HasActiveSession,
       WaitForSessionStop, HandleActiveSession, StopSession, EndSession, Stopped,
       PrepareMountAttempt, PrepareBlocked, PrepareTimed, MountSession, CreateSession,
       WaitForMountRetry, MountRetryInterval, WaitForRetryReset, ResetBlocked,
       RetryUnmountWithLimit, UnmountRetryInterval, RetryUnmount, WorkerEnds, FuseInit,
       LoopExits
  <2> QED BY <1>1, <2>1, <2>2
<1> QED
  BY <1>3, <1>4, <1>5, <1>6, <1>7, <1>8, <1>9, <1>10, <1>11, <1>12, <1>13, <1>14, <1>15,
     <1>16 DEF Next, ApiStep

(***************************************************************************)
(* The theorems.                                                           *)
(***************************************************************************)
TypeInv == NumType /\ RootType /\ CallType /\ ThreadType
ControllerInv ==
    /\ TypeInv /\ NextInv /\ CallInv /\ SessionInv /\ MountInv /\ WarmInv
    /\ EveryMountHasAnOwner /\ ReadyMeansServing

LEMMA InitInv == Init => ControllerInv
<1> SUFFICES ASSUME Init PROVE ControllerInv
  OBVIOUS
<1>1. worker.pc = "none" /\ api.pc = "idle"
  BY Zenon DEF Init, NoWorker, NoApi
<1>2. TypeInv
  BY NewCall, NewThread, NoRoots DEF Init, TypeInv, NumType, RootType, CallType, ThreadType
<1>3. NextInv /\ CallInv /\ SessionInv /\ MountInv
  BY <1>1, Zenon DEF Init, NextInv, CallInv, SessionInv, MountInv, Failing, Unmounted, Serving
<1>4. WarmInv
  BY <1>1, NoRoots, NoWarmups, Zenon
     DEF Init, WarmInv, CountInv, StoppedInv, TaskInv, EpochInv
<1> QED BY <1>2, <1>3, <1>4 DEF Init, ControllerInv, EveryMountHasAnOwner, ReadyMeansServing

LEMMA Kept == ControllerInv /\ [Next]_vars => ControllerInv'
<1>1. ASSUME ControllerInv, Next PROVE ControllerInv'
  <2>1. TypeInv'
    BY <1>1, NumTypeStep, RootTypeStep, CallTypeStep, ThreadTypeStep, Zenon
       DEF ControllerInv, TypeInv
  <2>2. NextInv' /\ CallInv' /\ SessionInv' /\ MountInv'
    BY <1>1, NextInvStep, CallInvStep, SessionInvStep, MountInvStep, Zenon
       DEF ControllerInv, TypeInv
  <2>3. WarmInv' /\ EveryMountHasAnOwner' /\ ReadyMeansServing'
    BY <1>1, WarmStep, OwnerStep, ReadyStep, Zenon DEF ControllerInv, TypeInv
  <2> QED BY <2>1, <2>2, <2>3, Zenon DEF ControllerInv
<1>2. ASSUME ControllerInv, UNCHANGED vars PROVE ControllerInv'
  <2>1. TypeInv'
    BY <1>2, Zenon DEF vars, ControllerInv, TypeInv, NumType, RootType, IsRoot, CallType,
       ThreadType
  <2>2. NextInv' /\ CallInv' /\ SessionInv' /\ MountInv'
    BY <1>2 DEF vars, ControllerInv, NextInv, CallInv, SessionInv, MountInv, Failing
  <2>3. WarmInv'
    BY <1>2, Zenon DEF vars, ControllerInv, WarmInv, CountInv, StoppedInv, TaskInv, EpochInv
  <2>4. EveryMountHasAnOwner' /\ ReadyMeansServing'
    BY <1>2, Zenon DEF vars, ControllerInv, EveryMountHasAnOwner, ReadyMeansServing
  <2> QED BY <2>1, <2>2, <2>3, <2>4, Zenon DEF ControllerInv
<1> QED BY <1>1, <1>2, Zenon

(* An idle controller has no mount: the only mounts its invariant leaves   *)
(* are those the worker has undone.                                        *)
LEMMA IdleHasNoMount == ControllerInv => UnloadLeavesNoMount
<1> SUFFICES ASSUME ControllerInv, IsIdle, NEW u \in mounted PROVE u = loop
  BY Zenon DEF UnloadLeavesNoMount
<1>1. pending = {} /\ session = "none" /\ state = "IDLE"
  BY Zenon DEF IsIdle
<1>2. MountInv /\ SessionInv /\ EveryMountHasAnOwner
  BY Zenon DEF ControllerInv
<1>3. CASE /\ worker.user = u
           /\ worker.pc \in {"create", "unmount", "joinloop", "retry", "uwait", "conclude"}
  BY <1>1, <1>2, <1>3, Zenon DEF MountInv, Failing, SessionInv, Serving
<1> QED BY <1>1, <1>2, <1>3 DEF EveryMountHasAnOwner

LEMMA WarmupsCounted == ControllerInv => WarmupsAreCounted
<1> SUFFICES ASSUME ControllerInv PROVE WarmupsAreCounted
  OBVIOUS
<1>1. CountInv /\ TaskInv /\ EpochInv /\ RootType
  BY Zenon DEF ControllerInv, WarmInv, TypeInv
<1>2. ASSUME api.pc = "idle", NEW r \in Roots
      PROVE  /\ Cardinality(WarmOf(warm, r)) = IF r \in DOMAIN roots THEN roots[r].tasks ELSE 0
             /\ r \in DOMAIN roots /\ roots[r].st = "RETIRING" => roots[r].tasks = 0
  BY <1>1, <1>2, Zenon DEF TaskInv, EpochInv
<1> QED BY <1>1, <1>2 DEF WarmupsAreCounted, CountInv, WarmOf

(* The controller forgets no mount point, keeps none when it is idle,      *)
(* counts its warm-ups and is READY only through a session that answers,   *)
(* for any users and roots, whatever calls arrive, whichever calls to the  *)
(* mount adapter fail, and wherever the worker is.                         *)
THEOREM MountsAreOwnedThm == Spec => []MountsAreOwned
<1>1. ControllerInv => MountsAreOwned
  BY IdleHasNoMount, WarmupsCounted, Zenon DEF ControllerInv, MountsAreOwned
<1> QED BY <1>1, InitInv, Kept, PTL DEF Spec

(* The step that makes a started controller idle dispatches the idle       *)
(* callback.                                                               *)
THEOREM IdleIsAnnouncedThm == Spec => [][IdleIsAnnounced]_vars
<1>1. ControllerInv /\ [Next]_vars => [IdleIsAnnounced]_vars
  BY IdleStep, Zenon DEF ControllerInv, TypeInv
<1> QED BY <1>1, InitInv, Kept, PTL DEF Spec
=============================================================================
