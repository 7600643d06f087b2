----------------------------- MODULE ProgressManager -----------------------------
(***************************************************************************)
(* Progress of hydration tasks, routed to the accessor that asked for the  *)
(* file: PlaceholderProgressManager of the cloud disk service.             *)
(*   services/clouddiskservice/ipc/src/placeholder_progress_manager.cpp    *)
(*                                                                         *)
(* A task reports under its own mutex (NotifyProgressLocked), so a change  *)
(* of its state and the report are one step.  The reports of all tasks go  *)
(* through one serial queue whose worker sends them without a lock.        *)
(***************************************************************************)
EXTENDS Integers, Sequences, FiniteSets

CONSTANTS
    Keys,         \* SubscriberKey: caller and accessor
    Users,
    Objects,      \* callback objects of the accessors' processes
    Tasks,        \* request keys
    MaxSubs,      \* bound on registrations
    MaxReports    \* bound on reports of work in progress per task

VARIABLES
    sub,          \* subscribers_: [key -> number of the subscriber, or 0]
    info,         \* info[n]: the subscriber's [key, user, obj]
    active,       \* subscribers whose active flag is set
    watch,        \* [key, obj] of every death recipient that is set
    dead,         \* objects that died
    notice,       \* death notices under way: [key, obj]
    last,         \* lastProgress_: state and whether it is younger than MIN_INTERVAL
    queue,        \* queue_: [sub, task, state]
    sending,      \* report whose active flag was checked
    task,         \* [st, user, owner, first, reports]
    got           \* got[t]: reports sent to accessors, <<subscriber, state>>

vars == <<sub, info, active, watch, dead, notice, last, queue, sending, task, got>>

None == "none"
NoReport == [sub |-> 0, task |-> None, state |-> None]
Terminal == {"COMPLETED", "CANCELLED"}

Init ==
    /\ sub = [k \in Keys |-> 0] /\ info = << >> /\ active = {} /\ watch = {}
    /\ dead = {} /\ notice = {}
    /\ last = [t \in Tasks |-> [state |-> None, young |-> FALSE]]
    /\ queue = << >> /\ sending = NoReport
    /\ task = [t \in Tasks |-> [st |-> None, user |-> None, owner |-> None,
                                first |-> 0, reports |-> 0]]
    /\ got = [t \in Tasks |-> << >>]

-----------------------------------------------------------------------------
(* Register: a key has one subscriber; a dead object cannot be watched.    *)
Register(k, u, o) ==
    /\ sub[k] = 0 /\ o \notin dead
    /\ Len(info) < MaxSubs
    /\ info' = Append(info, [key |-> k, user |-> u, obj |-> o])
    /\ sub' = [sub EXCEPT ![k] = Len(info')]
    /\ active' = active \cup {Len(info')}
    /\ watch' = watch \cup {[key |-> k, obj |-> o]}
    /\ UNCHANGED <<dead, notice, last, queue, sending, task, got>>

Drop(S) == sub' = [k \in Keys |-> IF sub[k] \in S THEN 0 ELSE sub[k]] /\ active' = active \ S

(* Unregister; the death recipient is removed after the lock is released.  *)
Unregister(k) ==
    /\ sub[k] # 0
    /\ Drop({sub[k]})
    /\ UNCHANGED <<info, watch, dead, notice, last, queue, sending, task, got>>

RemoveDeathRecipient(w) ==
    /\ w \in watch
    /\ \A n \in active : w # [key |-> info[n].key, obj |-> info[n].obj]
    /\ watch' = watch \ {w}
    /\ UNCHANGED <<sub, info, active, dead, notice, last, queue, sending, task, got>>

Die(o) ==
    /\ o \notin dead
    /\ dead' = dead \cup {o}
    /\ notice' = notice \cup {w \in watch : w.obj = o}
    /\ watch' = {w \in watch : w.obj # o}
    /\ UNCHANGED <<sub, info, active, last, queue, sending, task, got>>

DiedSubscriber(w) == sub[w.key] # 0 /\ info[sub[w.key]].obj = w.obj

(* OnRemoteDied: only for the object that died.                            *)
OnRemoteDied(w) ==
    /\ w \in notice
    /\ notice' = notice \ {w}
    /\ IF DiedSubscriber(w) THEN Drop({sub[w.key]}) ELSE UNCHANGED <<sub, active>>
    /\ UNCHANGED <<info, watch, dead, last, queue, sending, task, got>>

-----------------------------------------------------------------------------
ThrottleAll(t, s) == last[t].young /\ last[t].state # None

Throttled(t, s) == s \notin Terminal /\ last[t].state = s /\ last[t].young

NewLast(t, s) ==
    IF s \in Terminal THEN [state |-> None, young |-> FALSE]
    ELSE [state |-> s, young |-> TRUE]

Routed(n, u) == n # 0 /\ info[n].user = u

Submit(r) == queue' = Append(queue, r)

(* OnTaskProgress, for a task of user u, reported to owner k.              *)
OnTaskProgress(t, u, s, k) ==
    IF Throttled(t, s)
    THEN UNCHANGED <<last, queue>>
    ELSE /\ last' = [last EXCEPT ![t] = NewLast(t, s)]
         /\ IF Routed(sub[k], u)
            THEN Submit([sub |-> sub[k], task |-> t, state |-> s])
            ELSE UNCHANGED queue

CreateTask(t, u, k) ==
    /\ task[t].st = None
    /\ task' = [task EXCEPT ![t] = [st |-> "PENDING", user |-> u, owner |-> k,
                                    first |-> sub[k], reports |-> 0]]
    /\ OnTaskProgress(t, u, "PENDING", k)
    /\ UNCHANGED <<sub, info, active, watch, dead, notice, sending, got>>

(* The task is dispatched, writes a chunk, or completes.                   *)
TaskReports(t, s) ==
    /\ task[t].st \in {"PENDING", "IN_PROGRESS"}
    /\ s = "COMPLETED" => task[t].st = "IN_PROGRESS"
    /\ s \in {"IN_PROGRESS", "COMPLETED"}
    /\ s = "IN_PROGRESS" => task[t].reports < MaxReports
    /\ task' = [task EXCEPT ![t].st = s, ![t].reports = @ + 1]
    /\ OnTaskProgress(t, task[t].user, s, task[t].owner)
    /\ UNCHANGED <<sub, info, active, watch, dead, notice, sending, got>>

(* A cancellation by an accessor is reported to that accessor; any other   *)
(* cancellation to the owner.                                              *)
TaskCancelled(t, k) ==
    /\ task[t].st \in {"PENDING", "IN_PROGRESS"}
    /\ task' = [task EXCEPT ![t].st = "CANCELLED", ![t].owner = k,
                            ![t].first = IF k = task[t].owner THEN @ ELSE sub[k]]
    /\ OnTaskProgress(t, task[t].user, "CANCELLED", k)
    /\ UNCHANGED <<sub, info, active, watch, dead, notice, sending, got>>

(* Half a second passes.                                                   *)
Elapse ==
    /\ \E t \in Tasks : last[t].young
    /\ last' = [t \in Tasks |-> [last[t] EXCEPT !.young = FALSE]]
    /\ UNCHANGED <<sub, info, active, watch, dead, notice, queue, sending, task, got>>

(* The worker of the serial queue: the flag is read, then the call made.   *)
CheckActive ==
    /\ sending = NoReport /\ queue # << >>
    /\ queue' = Tail(queue)
    /\ sending' = IF Head(queue).sub \in active THEN Head(queue) ELSE NoReport
    /\ UNCHANGED <<sub, info, active, watch, dead, notice, last, task, got>>

OnProgress ==
    /\ sending # NoReport
    /\ got' = [got EXCEPT ![sending.task] = Append(@, <<sending.sub, sending.state>>)]
    /\ sending' = NoReport
    /\ UNCHANGED <<sub, info, active, watch, dead, notice, last, queue, task>>

(* A user switch: the tasks have been cancelled; Drain waits until the     *)
(* queue is empty, Clear then drops every subscriber.                      *)
ClearAll == sub' = [k \in Keys |-> 0] /\ active' = {}

Clear ==
    /\ queue = << >> /\ sending = NoReport /\ active # {}
    /\ \A t \in Tasks : task[t].st \in Terminal \cup {None}
    /\ ClearAll
    /\ last' = [t \in Tasks |-> [state |-> None, young |-> FALSE]]
    /\ UNCHANGED <<info, watch, dead, notice, queue, sending, task, got>>

Next ==
    \/ \E k \in Keys, u \in Users, o \in Objects : Register(k, u, o)
    \/ \E k \in Keys : Unregister(k)
    \/ \E w \in watch : RemoveDeathRecipient(w)
    \/ \E o \in Objects : Die(o)
    \/ \E w \in notice : OnRemoteDied(w)
    \/ \E t \in Tasks, u \in Users, k \in Keys : CreateTask(t, u, k)
    \/ \E t \in Tasks, s \in {"IN_PROGRESS", "COMPLETED"} : TaskReports(t, s)
    \/ \E t \in Tasks, k \in Keys : TaskCancelled(t, k)
    \/ Elapse \/ CheckActive \/ OnProgress \/ Clear

Spec == Init /\ [][Next]_vars

-----------------------------------------------------------------------------
TypeOK ==
    /\ sub \in [Keys -> 0..Len(info)]
    /\ active = {sub[k] : k \in Keys} \ {0}

Rank(s) == CASE s = "PENDING" -> 1 [] s = "IN_PROGRESS" -> 2 [] OTHER -> 3

(* What an accessor hears of a task never goes back, and nothing follows   *)
(* the end of the task, although reports are queued, throttled and sent    *)
(* without a lock.                                                         *)
ReportsAreOrdered ==
    \A t \in Tasks : \A i, j \in 1..Len(got[t]) :
        i < j => /\ Rank(got[t][i][2]) <= Rank(got[t][j][2])
                 /\ got[t][i][2] \notin Terminal

(* The end of a task is never throttled away: an accessor that has stayed  *)
(* registered hears of it once the queue is empty.                         *)
EndIsReported ==
    \A t \in Tasks :
        LET n == task[t].first
        IN (/\ task[t].st \in Terminal /\ n \in active
            /\ info[n].user = task[t].user
            /\ queue = << >> /\ sending = NoReport)
           => \E i \in 1..Len(got[t]) : got[t][i] = <<n, task[t].st>>

(* Reports cross neither users nor accessors.                              *)
ReportsStayWithTheUser ==
    \A t \in Tasks : \A i \in 1..Len(got[t]) : info[got[t][i][1]].user = task[t].user

(* What an accessor is told about a task, in one definition.               *)
ReportsAreRight == ReportsAreOrdered /\ EndIsReported /\ ReportsStayWithTheUser

(* A registration whose process lives is taken away only by Unregister or  *)
(* by a user switch, never by the late death notice of an earlier one.     *)
LiveSubscribersSurviveDeathNotices ==
    \A k \in Keys :
        (sub[k] # 0 /\ sub'[k] # sub[k] /\ notice' # notice) => info[sub[k]].obj \in dead
=============================================================================
