------------------ MODULE PlaceholderTaskManagerInvariant -------------------
(***************************************************************************)
(* The inductive invariant of PlaceholderTaskManager, the lemmas that the  *)
(* proofs that every action keeps it rest on, and these proofs: for the    *)
(* calls of applications, providers and the service, the clock and the     *)
(* monitor, then for the steps of the threads and the dispatcher.          *)
(***************************************************************************)
EXTENDS PlaceholderTaskManager, TLAPS

(* What the proofs need to know of the sets of names and numbers.          *)
LEMMA KeyFacts ==
  /\ \A n \in 1..(MaxKey + 1) : n <= MaxKey => n \in Keys /\ n + 1 \in 1..(MaxKey + 1)
  /\ "PENDING" \in States
BY BoundsAssumption DEF Keys, States

LEMMA EntryFacts ==
  /\ \A n \in 1..(MaxEntry + 1) : n <= MaxEntry => n \in Entries /\ n + 1 \in 1..(MaxEntry + 1)
  /\ 0 \notin Entries
BY BoundsAssumption DEF Entries

LEMMA ThreadFacts ==
  /\ Clients \subseteq Threads /\ NoThread \notin Threads
  /\ "dispatcher" \in Threads /\ "monitor" \in Threads /\ "lifecycle" \in Threads
  /\ \A t \in Clients : t # "dispatcher" /\ t # "monitor" /\ t # "lifecycle"
BY ThreadsAssumption, Zenon DEF Threads

LEMMA Facts ==
  /\ "dispatcher" \in Threads
  /\ "PENDING" \in States /\ "IN_PROGRESS" \in States
  /\ "COMPLETED" \in States /\ "CANCELLED" \in States
BY Zenon DEF Threads, States

LEMMA LabelFacts ==
  /\ "idle" \in Labels /\ "wait" \in Labels /\ "created" \in Labels /\ "schedule" \in Labels
  /\ "next" \in Labels /\ "record" \in Labels /\ "lookup" \in Labels /\ "lock" \in Labels
  /\ "send" \in Labels /\ "sent" \in Labels /\ "erase" \in Labels /\ "select" \in Labels
  /\ "activate" \in Labels /\ "execute" \in Labels /\ "write" \in Labels
  /\ "barrier" \in Labels /\ "drain" \in Labels /\ "clear" \in Labels
BY Zenon DEF Labels

LEMMA ReasonFacts ==
  /\ "NONE" \in Reasons /\ "USER_REQUEST" \in Reasons /\ "TIMEOUT" \in Reasons
  /\ "INTERNAL_ERROR" \in Reasons /\ "DISPATCH_FAILED" \in Reasons
  /\ "UNREGISTER" \in Reasons /\ "CALLBACK_DIED" \in Reasons
  /\ "USER_SWITCH" \in Reasons /\ "SERVICE_STOP" \in Reasons
BY Zenon DEF Reasons

(***************************************************************************)
(* The inductive invariant, by subject.                                    *)
(***************************************************************************)
(* A dispatch loop that runs has set its flag, and the dispatcher does     *)
(* nothing else; the monitor runs only while the scheduler does, or is     *)
(* being stopped.                                                          *)
RoleInv ==
  /\ pc["dispatcher"] # "idle" => dispatchScheduled
  /\ pc["dispatcher"] \notin {"created", "schedule", "next", "barrier", "drain", "clear",
                              "wait", "execute", "write"}
  /\ ~running => \/ pc["monitor"] = "idle"
                 \/ /\ pc["lifecycle"] \in {"next", "record", "erase", "drain"}
                    /\ why["lifecycle"] = "SERVICE_STOP"

(* Outstanding tasks are in taskMap_, keys not given out yet are not, and  *)
(* no two outstanding tasks are for one file.                              *)
TaskInv ==
  /\ \A k \in Keys : Outstanding(k) => k \in taskMap
  /\ \A k \in Keys : nextKey <= k => state[k] = "ABSENT" /\ k \notin taskMap
  /\ \A k, l \in Keys : Outstanding(k) /\ Outstanding(l) /\ file[k] = file[l] => k = l

(* An entry in the registry is in it once, is not given up and is not      *)
(* being given up; entries are numbered in order.                          *)
TableInv ==
  /\ \A a \in Apps : table[a] # 0 =>
       /\ table[a] < nextEntry /\ table[a] \notin closed
       /\ \A t \in Threads : table[a] \notin barrier[t]
       /\ \A b \in Apps : table[b] = table[a] => a = b
  /\ \A e \in closed : e < nextEntry
  /\ \A t \in Threads : \A e \in barrier[t] : e < nextEntry

(* What the label of a thread tells: whose mutex it holds, the state of    *)
(* the task it works on, and the entry it sends through.                   *)
Holding == {"record", "lookup", "lock", "send", "sent", "erase", "write"}
Free == {"idle", "wait", "created", "schedule", "next", "barrier", "drain", "clear"}

LockOf(t) ==
  /\ pc[t] \in Holding => cur[t] \in Keys /\ taskLock[cur[t]] = t
  /\ pc[t] \in {"activate", "execute"} => cur[t] \in Keys
  /\ pc[t] \in {"select", "activate", "sent"} => t = "dispatcher"
StateOf(t) ==
  /\ pc[t] = "write" => state[cur[t]] = "IN_PROGRESS"
  /\ pc[t] = "sent" => state[cur[t]] = "PENDING"
  /\ pc[t] = "record" => state[cur[t]] = "CANCELLED"
  /\ pc[t] = "erase" => state[cur[t]] \in {"COMPLETED", "CANCELLED"}
  /\ pc[t] \in {"lookup", "lock", "send"} =>
       \/ state[cur[t]] = "CANCELLED"
       \/ state[cur[t]] = "PENDING" /\ t = "dispatcher"
SendOf(t) ==
  /\ pc[t] \in {"lock", "send"} => entry[t] \in Entries
  /\ pc[t] = "send" => dispatchLock[entry[t]] = t /\ entry[t] \notin closed
ThreadInv == \A t \in Threads : LockOf(t) /\ StateOf(t) /\ SendOf(t)

IInv ==
  /\ TaskTypeOK /\ TableTypeOK /\ ThreadTypeOK
  /\ RoleInv /\ TaskInv /\ TableInv /\ ThreadInv

(* A key not handed out yet has no task.                                   *)
LEMMA FreshKey ==
  ASSUME TaskTypeOK, TaskInv, nextKey <= MaxKey
  PROVE  nextKey \in Keys /\ state[nextKey] = "ABSENT"
<1>1. nextKey \in Keys /\ nextKey <= nextKey
  BY BoundsAssumption DEF TaskTypeOK, Keys
<1> QED
  BY <1>1, Zenon DEF TaskInv

(***************************************************************************)
(* What a step of thread t leaves alone: the other threads' variables, the *)
(* tasks whose mutex another thread holds, and the entries whose dispatch  *)
(* mutex another thread holds.                                             *)
(***************************************************************************)
OthersStay(t) ==
  \A u \in Threads \ {t} : pc'[u] = pc[u] /\ cur'[u] = cur[u] /\ entry'[u] = entry[u]
LocksRespected(t) ==
  \A k \in Keys : taskLock[k] \in Threads \ {t} /\ state[k] # "ABSENT" =>
    taskLock'[k] = taskLock[k] /\ state'[k] = state[k]
EntriesRespected(t) ==
  \A e \in Entries : dispatchLock[e] \in Threads \ {t} =>
    dispatchLock'[e] = dispatchLock[e] /\ (e \in closed' => e \in closed)

(* Then only what the label of t itself tells is left to show.             *)
LEMMA ThreadInvKept ==
  ASSUME ThreadInv, NEW t \in Threads,
         OthersStay(t), LocksRespected(t), EntriesRespected(t),
         LockOf(t)', StateOf(t)', SendOf(t)'
  PROVE  ThreadInv'
<1>1. ASSUME NEW u \in Threads, u # t PROVE LockOf(u)' /\ StateOf(u)' /\ SendOf(u)'
  <2>1. pc'[u] = pc[u] /\ cur'[u] = cur[u] /\ entry'[u] = entry[u]
    BY <1>1, Zenon DEF OthersStay
  <2>2. LockOf(u) /\ StateOf(u) /\ SendOf(u)
    BY <1>1, Zenon DEF ThreadInv
  <2>3. pc[u] \in Holding => /\ taskLock'[cur[u]] = taskLock[cur[u]]
                             /\ state'[cur[u]] = state[cur[u]]
    <3>1. pc[u] \in Holding => state[cur[u]] # "ABSENT"
      BY <2>2, Zenon DEF StateOf, Holding
    <3> QED
      BY <1>1, <2>2, <3>1, Zenon DEF LockOf, LocksRespected
  <2>4. LockOf(u)'
    BY <2>1, <2>2, <2>3, Zenon DEF LockOf, Holding
  <2>5. StateOf(u)'
    BY <2>1, <2>2, <2>3, Zenon DEF StateOf, Holding
  <2>6. SendOf(u)'
    BY <1>1, <2>1, <2>2, Zenon DEF SendOf, EntriesRespected
  <2> QED
    BY <2>4, <2>5, <2>6, Zenon
<1> QED
  BY <1>1, Zenon DEF ThreadInv

LEMMA ThreadInvFreed ==
  ASSUME ThreadInv, NEW t \in Threads,
         OthersStay(t), LocksRespected(t), EntriesRespected(t), pc'[t] \in Free
  PROVE  ThreadInv'
<1>1. LockOf(t)' /\ StateOf(t)' /\ SendOf(t)'
  BY Zenon DEF LockOf, StateOf, SendOf, Holding, Free
<1> QED
  BY <1>1, ThreadInvKept, Zenon

(* A step that leaves a part of the state alone keeps what is said of it.  *)
LEMMA TaskTypeOKFrame ==
  ASSUME TaskTypeOK, UNCHANGED <<state, file, prio, fetchDispatched, writes, taskMap,
     deadline, nextKey, taskLock>>
  PROVE  TaskTypeOK'
BY Zenon DEF TaskTypeOK

LEMMA TableTypeOKFrame ==
  ASSUME TableTypeOK, UNCHANGED <<running, stopping, dispatchScheduled, table, entryApp,
     nextEntry, dispatchLock, closed>>
  PROVE  TableTypeOK'
BY Zenon DEF TableTypeOK

LEMMA ThreadTypeOKFrame ==
  ASSUME ThreadTypeOK, UNCHANGED <<pc, why, todo, cur, entry, barrier>>
  PROVE  ThreadTypeOK'
BY Zenon DEF ThreadTypeOK

LEMMA RoleInvFrame ==
  ASSUME RoleInv, UNCHANGED <<pc, dispatchScheduled, running, why>>
  PROVE  RoleInv'
BY Zenon DEF RoleInv

LEMMA TaskInvFrame ==
  ASSUME TaskInv, UNCHANGED <<state, taskMap, nextKey, file>>
  PROVE  TaskInv'
BY Zenon DEF TaskInv, Outstanding

LEMMA TableInvFrame ==
  ASSUME TableInv, UNCHANGED <<table, nextEntry, closed, barrier>>
  PROVE  TableInv'
BY Zenon DEF TableInv

LEMMA ThreadInvFrame ==
  ASSUME ThreadInv, UNCHANGED <<state, pc, cur, taskLock, entry, dispatchLock, closed>>
  PROVE  ThreadInv'
BY DEF ThreadInv, LockOf, StateOf, SendOf

(* The type of the thread's label after a step that moves it.              *)
LEMMA GotoType ==
  ASSUME ThreadTypeOK, NEW t \in Threads, NEW label \in Labels, Goto(t, label)
  PROVE  pc' \in [Threads -> Labels]
BY Zenon DEF ThreadTypeOK, Goto

LEMMA BeginCancelType ==
  ASSUME TaskTypeOK, ThreadTypeOK, NEW t \in Threads, NEW k, NEW reason \in Reasons,
         BeginCancel(t, k, reason)
  PROVE  /\ state' \in [Keys -> States]
         /\ why' \in [Threads -> Reasons]
         /\ pc' \in [Threads -> Labels]
BY Facts, LabelFacts, Zenon DEF TaskTypeOK, ThreadTypeOK, BeginCancel, Goto

LEMMA DispatchFailsType ==
  ASSUME TaskTypeOK, ThreadTypeOK, NEW t \in Threads, DispatchFails(t)
  PROVE  /\ state' \in [Keys -> States]
         /\ why' \in [Threads -> Reasons]
         /\ pc' \in [Threads -> Labels]
<1>1. CASE Fetching(t)
  BY <1>1, BeginCancelType, ReasonFacts, Zenon DEF DispatchFails
<1>2. CASE ~Fetching(t)
  BY <1>2, GotoType, LabelFacts, Zenon DEF DispatchFails, TaskTypeOK, ThreadTypeOK
<1> QED
  BY <1>1, <1>2, Zenon

(* A task that ends, or goes on, under its key.                            *)
LEMMA TaskInvMoves ==
  ASSUME TaskTypeOK, TaskInv, NEW k \in Keys, state[k] # "ABSENT",
         NEW s, s \in {"COMPLETED", "CANCELLED"} \/ (s = "IN_PROGRESS" /\ Outstanding(k)),
         state' = [state EXCEPT ![k] = s], UNCHANGED <<taskMap, nextKey, file>>
  PROVE  TaskInv'
<1>1. \A j \in Keys : Outstanding(j)' => Outstanding(j)
  BY Zenon DEF TaskTypeOK, Outstanding
<1>2. \A j \in Keys : state[j] = "ABSENT" => state'[j] = "ABSENT"
  BY Zenon DEF TaskTypeOK
<1> QED
  BY <1>1, <1>2, Zenon DEF TaskInv

(* A dispatch that fails leaves a cancelled task, to be recorded or to be  *)
(* erased.                                                                 *)
LEMMA DispatchFailsEffect ==
  ASSUME TaskTypeOK, ThreadTypeOK, ThreadInv, NEW t \in Threads,
         pc[t] \in {"lookup", "lock", "send"}, DispatchFails(t)
  PROVE  /\ cur[t] \in Keys /\ taskLock[cur[t]] = t
         /\ state' = [state EXCEPT ![cur[t]] = "CANCELLED"]
         /\ \/ pc' = [pc EXCEPT ![t] = "record"]
            \/ pc' = [pc EXCEPT ![t] = "erase"]
<1>1. cur[t] \in Keys /\ taskLock[cur[t]] = t
  BY Zenon DEF ThreadInv, LockOf, Holding
<1>2. CASE Fetching(t)
  BY <1>1, <1>2, Zenon DEF DispatchFails, BeginCancel, Goto
<1>3. CASE ~Fetching(t)
  <2>1. state[cur[t]] = "CANCELLED"
    BY <1>3, Zenon DEF ThreadInv, StateOf, Fetching
  <2>2. state = [state EXCEPT ![cur[t]] = "CANCELLED"]
    BY <1>1, <2>1, Zenon DEF TaskTypeOK
  <2> QED
    BY <1>1, <1>3, <2>2, Zenon DEF DispatchFails, Goto
<1> QED
  BY <1>2, <1>3, Zenon

LEMMA SelectableType ==
  ASSUME TaskTypeOK
  PROVE  Selectable \subseteq Keys
BY Zenon DEF Selectable, PendingTasks, TaskTypeOK

LEMMA CreateHydrateTaskStep ==
  ASSUME IInv, NEW t \in Clients, NEW f \in Files, NEW p \in Priorities,
     CreateHydrateTask(t, f, p)
  PROVE  IInv'
<1>1. TaskInv'
  <2>1. nextKey \in Keys /\ state[nextKey] = "ABSENT" /\ nextKey \notin taskMap
    BY BoundsAssumption, KeyFacts DEF IInv, CreateHydrateTask, TaskTypeOK, TaskInv, Keys
  <2>2. \A k \in Keys : Outstanding(k)' <=> Outstanding(k) \/ k = nextKey
    BY <2>1, Zenon DEF IInv, CreateHydrateTask, TaskTypeOK, Outstanding
  <2>3. \A k \in Keys : file'[k] = IF k = nextKey THEN f ELSE file[k]
    BY <2>1, Zenon DEF IInv, CreateHydrateTask, TaskTypeOK
  <2>4. \A k \in Keys : Outstanding(k) => file[k] # f
    BY Zenon DEF IInv, CreateHydrateTask, PrepareHydrateTask, TaskInv
  <2>5. \A k \in Keys : Outstanding(k)' => k \in taskMap'
    BY <2>2, Zenon DEF IInv, CreateHydrateTask, TaskInv
  <2>6. \A k, l \in Keys : Outstanding(k)' /\ Outstanding(l)' /\ file'[k] = file'[l] => k = l
    BY <2>2, <2>3, <2>4, Zenon DEF IInv, TaskInv
  <2>7. \A k \in Keys : nextKey' <= k => k # nextKey /\ nextKey <= k
    BY <2>1, BoundsAssumption DEF IInv, CreateHydrateTask, TaskTypeOK, Keys
  <2>8. \A k \in Keys : nextKey' <= k => state'[k] = "ABSENT" /\ k \notin taskMap'
    BY <2>7, Zenon DEF IInv, CreateHydrateTask, TaskTypeOK, TaskInv
  <2> QED
    BY <2>5, <2>6, <2>8, Zenon DEF IInv, TaskInv
<1>2. TaskTypeOK' /\ ThreadTypeOK'
  BY KeyFacts, ThreadFacts, LabelFacts, Zenon DEF IInv, CreateHydrateTask,
     PurgeExpiredCancellationRecords, RecordsAre, Goto, TaskTypeOK, ThreadTypeOK, taskVars,
     mapVars, lockVars, threadVars
<1>3. RoleInv'
  BY ThreadFacts, Zenon DEF IInv, CreateHydrateTask, Goto, ThreadTypeOK, TableTypeOK, RoleInv,
     flagVars, threadVars
<1>4. LocksRespected(t)
  <2>1. nextKey \in Keys /\ state[nextKey] = "ABSENT"
    BY FreshKey, Zenon DEF IInv, CreateHydrateTask
  <2> QED
    BY <2>1, Zenon DEF IInv, CreateHydrateTask, TaskTypeOK, LocksRespected, lockVars
<1>5. /\ t \in Threads /\ OthersStay(t) /\ EntriesRespected(t)
      /\ pc'[t] \in Free
  BY ThreadFacts, Zenon DEF IInv, CreateHydrateTask, Goto, OthersStay, EntriesRespected, Free,
     ThreadTypeOK, PurgeExpiredCancellationRecords, RecordsAre, taskVars, lockVars,
     threadVars, historyVars
<1>6. ThreadInv'
  BY <1>4, <1>5, ThreadInvFreed, Zenon DEF IInv
<1>7. /\ TableTypeOK' /\ TableInv'
  BY TableTypeOKFrame, TableInvFrame, Zenon DEF IInv, CreateHydrateTask,
     PurgeExpiredCancellationRecords, RecordsAre, flagVars, tableVars, lockVars,
     threadVars, historyVars
<1> QED
  BY <1>1, <1>2, <1>3, <1>6, <1>7, Zenon DEF IInv

LEMMA RegisterCallbackTableStep ==
  ASSUME IInv, NEW t \in Clients, NEW a \in Apps, RegisterCallbackTable(t, a)
  PROVE  IInv'
<1>1. TableTypeOK'
  BY EntryFacts, Zenon DEF IInv, RegisterCallbackTable, TableTypeOK, flagVars, tableVars,
     lockVars, historyVars
<1>2. TableInv'
  BY BoundsAssumption DEF IInv, RegisterCallbackTable, ThreadTypeOK, TableTypeOK, Entries,
     TableInv, tableVars, threadVars, historyVars
<1>3. /\ TaskTypeOK' /\ ThreadTypeOK' /\ RoleInv' /\ TaskInv'
      /\ ThreadInv'
  BY TaskTypeOKFrame, ThreadTypeOKFrame, RoleInvFrame, TaskInvFrame,
     ThreadInvFrame, Zenon DEF IInv, RegisterCallbackTable, taskVars, mapVars, flagVars, lockVars,
     threadVars, historyVars
<1> QED
  BY <1>1, <1>2, <1>3, Zenon DEF IInv

LEMMA CancelTaskStep ==
  ASSUME IInv, NEW t \in Clients, NEW f \in Files, CancelTask(t, f)
  PROVE  IInv'
<1>1. ThreadTypeOK'
  BY ThreadFacts, LabelFacts, ReasonFacts, Zenon DEF IInv, CancelTask, Goto, TaskTypeOK,
     ThreadTypeOK, threadVars
<1>2. RoleInv'
  BY ThreadFacts, Zenon DEF IInv, CancelTask, Goto, ThreadTypeOK, TableTypeOK, RoleInv, flagVars,
     threadVars
<1>3. /\ t \in Threads /\ OthersStay(t) /\ LocksRespected(t)
      /\ EntriesRespected(t) /\ pc'[t] \in Free
  BY ThreadFacts, Zenon DEF IInv, CancelTask, Goto, OthersStay, LocksRespected, EntriesRespected,
     Free, ThreadTypeOK, taskVars, lockVars, threadVars, historyVars
<1>4. ThreadInv'
  BY <1>3, ThreadInvFreed, Zenon DEF IInv
<1>5. /\ TaskTypeOK' /\ TableTypeOK' /\ TaskInv' /\ TableInv'
  BY TaskTypeOKFrame, TableTypeOKFrame, TaskInvFrame, TableInvFrame, Zenon DEF IInv, CancelTask,
     taskVars, mapVars, flagVars, tableVars, lockVars, threadVars, historyVars
<1> QED
  BY <1>1, <1>2, <1>4, <1>5, Zenon DEF IInv

LEMMA ExecuteFoundStep ==
  ASSUME IInv, NEW t \in Clients, NEW k \in Keys, ExecuteFound(t, k)
  PROVE  IInv'
<1>1. ThreadTypeOK'
  BY ThreadFacts, LabelFacts, Zenon DEF IInv, ExecuteFound, Goto, ThreadTypeOK, threadVars
<1>2. RoleInv'
  BY ThreadFacts, Zenon DEF IInv, ExecuteFound, Goto, ThreadTypeOK, TableTypeOK, RoleInv,
     flagVars, threadVars
<1>3. /\ t \in Threads /\ OthersStay(t) /\ LocksRespected(t)
      /\ EntriesRespected(t)
  BY ThreadFacts, Zenon DEF IInv, ExecuteFound, Goto, OthersStay, LocksRespected,
     EntriesRespected, ThreadTypeOK, taskVars, lockVars, threadVars, historyVars
<1>4. LockOf(t)' /\ StateOf(t)' /\ SendOf(t)'
  BY ThreadFacts DEF IInv, ExecuteFound, Goto, LockOf, StateOf, SendOf, ThreadInv, Holding,
     ThreadTypeOK, TaskTypeOK, taskVars, lockVars, threadVars, historyVars
<1>5. ThreadInv'
  BY <1>3, <1>4, ThreadInvKept, Zenon DEF IInv
<1>6. /\ TaskTypeOK' /\ TableTypeOK' /\ TaskInv' /\ TableInv'
  BY TaskTypeOKFrame, TableTypeOKFrame, TaskInvFrame, TableInvFrame, Zenon DEF IInv, ExecuteFound,
     taskVars, mapVars, flagVars, tableVars, lockVars, threadVars, historyVars
<1> QED
  BY <1>1, <1>2, <1>5, <1>6, Zenon DEF IInv

LEMMA ExecuteNotFoundStep ==
  ASSUME IInv, NEW t \in Clients, NEW k \in Keys, ExecuteNotFound(t, k)
  PROVE  IInv'
<1>1. /\ TaskTypeOK' /\ TableTypeOK' /\ ThreadTypeOK' /\ RoleInv'
      /\ TaskInv' /\ TableInv' /\ ThreadInv'
  BY TaskTypeOKFrame, TableTypeOKFrame, ThreadTypeOKFrame, RoleInvFrame, TaskInvFrame,
     TableInvFrame, ThreadInvFrame, Zenon DEF IInv, ExecuteNotFound,
     PurgeExpiredCancellationRecords, RecordsAre, taskVars, mapVars, flagVars, tableVars,
     lockVars, threadVars, historyVars
<1> QED
  BY <1>1, Zenon DEF IInv

LEMMA UnregisterCallbackTableStep ==
  ASSUME IInv, NEW t \in Clients, NEW a \in Apps, NEW r \in {"UNREGISTER",
     "CALLBACK_DIED"}, UnregisterCallbackTable(t, a, r)
  PROVE  IInv'
<1>1. TableTypeOK' /\ ThreadTypeOK'
  BY ThreadFacts, LabelFacts, ReasonFacts DEF IInv, UnregisterCallbackTable, Goto,
     TableTypeOK, ThreadTypeOK, flagVars, tableVars, lockVars, threadVars, historyVars
<1>2. RoleInv'
  BY ThreadFacts, Zenon DEF IInv, UnregisterCallbackTable, Goto, ThreadTypeOK, TableTypeOK,
     RoleInv, flagVars, threadVars
<1>3. TableInv'
  BY ThreadFacts, EntryFacts DEF IInv, UnregisterCallbackTable, ThreadTypeOK, TableTypeOK,
     TableInv, tableVars, threadVars, historyVars
<1>4. /\ t \in Threads /\ OthersStay(t) /\ LocksRespected(t)
      /\ EntriesRespected(t) /\ pc'[t] \in Free
  BY ThreadFacts, Zenon DEF IInv, UnregisterCallbackTable, Goto, OthersStay, LocksRespected,
     EntriesRespected, Free, ThreadTypeOK, taskVars, lockVars, threadVars, historyVars
<1>5. ThreadInv'
  BY <1>4, ThreadInvFreed, Zenon DEF IInv
<1>6. /\ TaskTypeOK' /\ TaskInv'
  BY TaskTypeOKFrame, TaskInvFrame, Zenon DEF IInv, UnregisterCallbackTable, taskVars, mapVars,
     lockVars
<1> QED
  BY <1>1, <1>2, <1>3, <1>5, <1>6, Zenon DEF IInv

LEMMA ClearAllStep ==
  ASSUME IInv, NEW r \in {"SERVICE_STOP", "USER_SWITCH"}, ClearAll(r)
  PROVE  IInv'
<1>1. TableTypeOK' /\ ThreadTypeOK'
  BY ThreadFacts, LabelFacts, ReasonFacts DEF IInv, ClearAll, Goto, TableTypeOK,
     ThreadTypeOK, flagVars, tableVars, lockVars, threadVars, historyVars
<1>2. RoleInv'
  BY ThreadFacts, Zenon DEF IInv, ClearAll, Goto, ThreadTypeOK, TableTypeOK, RoleInv, flagVars,
     threadVars
<1>3. TableInv'
  BY ThreadFacts, EntryFacts DEF IInv, ClearAll, ThreadTypeOK, TableTypeOK, TableInv,
     tableVars, threadVars, historyVars
<1>4. /\ "lifecycle" \in Threads /\ OthersStay("lifecycle") /\ LocksRespected("lifecycle")
      /\ EntriesRespected("lifecycle") /\ pc'["lifecycle"] \in Free
  BY ThreadFacts, Zenon DEF IInv, ClearAll, Goto, OthersStay, LocksRespected, EntriesRespected,
     Free, ThreadTypeOK, taskVars, lockVars, threadVars, historyVars
<1>5. ThreadInv'
  BY <1>4, ThreadInvFreed, Zenon DEF IInv
<1>6. /\ TaskTypeOK' /\ TaskInv'
  BY TaskTypeOKFrame, TaskInvFrame, Zenon DEF IInv, ClearAll, taskVars, mapVars, lockVars
<1> QED
  BY <1>1, <1>2, <1>3, <1>5, <1>6, Zenon DEF IInv

LEMMA StartSchedulerStep ==
  ASSUME IInv, StartScheduler
  PROVE  IInv'
<1>1. TableTypeOK'
  BY Zenon DEF IInv, StartScheduler, TableTypeOK, flagVars, tableVars, lockVars, historyVars
<1>2. ThreadTypeOK'
  BY ThreadFacts, LabelFacts, ReasonFacts, Zenon DEF IInv, StartScheduler, ThreadTypeOK, threadVars
<1>3. RoleInv'
  BY ThreadFacts, Zenon DEF IInv, StartScheduler, ThreadTypeOK, TableTypeOK, RoleInv,
     flagVars, threadVars
<1>4. ThreadInv'
  BY ThreadFacts DEF IInv, StartScheduler, LockOf, StateOf, SendOf, ThreadTypeOK, Holding,
     RoleInv, ThreadInv, taskVars, lockVars, threadVars, historyVars
<1>5. /\ TaskTypeOK' /\ TaskInv' /\ TableInv'
  BY TaskTypeOKFrame, TaskInvFrame, TableInvFrame, Zenon DEF IInv, StartScheduler, taskVars,
     mapVars, tableVars, lockVars, threadVars, historyVars
<1> QED
  BY <1>1, <1>2, <1>3, <1>4, <1>5, Zenon DEF IInv

LEMMA DeadlinePassesStep ==
  ASSUME IInv, NEW k \in Keys, DeadlinePasses(k)
  PROVE  IInv'
<1>1. TaskTypeOK'
  BY Zenon DEF IInv, DeadlinePasses, TaskTypeOK, taskVars, mapVars, lockVars
<1>2. /\ TableTypeOK' /\ ThreadTypeOK' /\ RoleInv' /\ TaskInv'
      /\ TableInv' /\ ThreadInv'
  BY TableTypeOKFrame, ThreadTypeOKFrame, RoleInvFrame, TaskInvFrame, TableInvFrame,
     ThreadInvFrame, Zenon DEF IInv, DeadlinePasses, taskVars, mapVars, flagVars, tableVars,
     lockVars, threadVars, historyVars
<1> QED
  BY <1>1, <1>2, Zenon DEF IInv

LEMMA RecordExpiresStep ==
  ASSUME IInv, RecordExpires
  PROVE  IInv'
<1>1. /\ TaskTypeOK' /\ TableTypeOK' /\ ThreadTypeOK' /\ RoleInv'
      /\ TaskInv' /\ TableInv' /\ ThreadInv'
  BY TaskTypeOKFrame, TableTypeOKFrame, ThreadTypeOKFrame, RoleInvFrame, TaskInvFrame,
     TableInvFrame, ThreadInvFrame, Zenon DEF IInv, RecordExpires, taskVars, mapVars, flagVars,
     tableVars, lockVars, threadVars, historyVars
<1> QED
  BY <1>1, Zenon DEF IInv

LEMMA DeadlineLoopWakesStep ==
  ASSUME IInv, DeadlineLoopWakes
  PROVE  IInv'
<1>1. ThreadTypeOK'
  BY ThreadFacts, LabelFacts, ReasonFacts, Zenon DEF IInv, DeadlineLoopWakes, Goto, ThreadTypeOK,
     threadVars
<1>2. RoleInv'
  BY ThreadFacts, Zenon DEF IInv, DeadlineLoopWakes, Goto, ThreadTypeOK, TableTypeOK, RoleInv,
     flagVars, threadVars
<1>3. /\ "monitor" \in Threads /\ OthersStay("monitor") /\ LocksRespected("monitor")
      /\ EntriesRespected("monitor") /\ pc'["monitor"] \in Free
  BY ThreadFacts, Zenon DEF IInv, DeadlineLoopWakes, Goto, OthersStay, LocksRespected,
     EntriesRespected, Free, ThreadTypeOK, taskVars, lockVars, threadVars, historyVars
<1>4. ThreadInv'
  BY <1>3, ThreadInvFreed, Zenon DEF IInv
<1>5. /\ TaskTypeOK' /\ TableTypeOK' /\ TaskInv' /\ TableInv'
  BY TaskTypeOKFrame, TableTypeOKFrame, TaskInvFrame, TableInvFrame, Zenon DEF IInv,
     DeadlineLoopWakes, taskVars, mapVars, flagVars, tableVars, lockVars, threadVars,
     historyVars
<1> QED
  BY <1>1, <1>2, <1>4, <1>5, Zenon DEF IInv

LEMMA DeadlineLoopEndsStep ==
  ASSUME IInv, DeadlineLoopEnds
  PROVE  IInv'
<1>1. ThreadTypeOK'
  BY ThreadFacts, LabelFacts, Zenon DEF IInv, DeadlineLoopEnds, Goto, ThreadTypeOK, threadVars
<1>2. RoleInv'
  BY ThreadFacts, Zenon DEF IInv, DeadlineLoopEnds, Goto, ThreadTypeOK, TableTypeOK, RoleInv,
     flagVars, threadVars
<1>3. /\ "monitor" \in Threads /\ OthersStay("monitor") /\ LocksRespected("monitor")
      /\ EntriesRespected("monitor") /\ pc'["monitor"] \in Free
  BY ThreadFacts, Zenon DEF IInv, DeadlineLoopEnds, Goto, OthersStay, LocksRespected,
     EntriesRespected, Free, ThreadTypeOK, taskVars, lockVars, threadVars, historyVars
<1>4. ThreadInv'
  BY <1>3, ThreadInvFreed, Zenon DEF IInv
<1>5. /\ TaskTypeOK' /\ TableTypeOK' /\ TaskInv' /\ TableInv'
  BY TaskTypeOKFrame, TableTypeOKFrame, TaskInvFrame, TableInvFrame, Zenon DEF IInv,
     DeadlineLoopEnds, taskVars, mapVars, flagVars, tableVars, lockVars, threadVars,
     historyVars
<1> QED
  BY <1>1, <1>2, <1>4, <1>5, Zenon DEF IInv

LEMMA StopSchedulerStep ==
  ASSUME IInv, StopScheduler
  PROVE  IInv'
<1>1. TableTypeOK'
  BY Zenon DEF IInv, StopScheduler, TableTypeOK, flagVars, tableVars, lockVars, historyVars
<1>2. ThreadTypeOK'
  BY ThreadFacts, LabelFacts, Zenon DEF IInv, StopScheduler, Goto, TaskTypeOK, ThreadTypeOK,
     threadVars
<1>3. RoleInv'
  BY ThreadFacts, Zenon DEF IInv, StopScheduler, Goto, ThreadTypeOK, TableTypeOK, RoleInv,
     flagVars, threadVars
<1>4. /\ "lifecycle" \in Threads /\ OthersStay("lifecycle") /\ LocksRespected("lifecycle")
      /\ EntriesRespected("lifecycle") /\ pc'["lifecycle"] \in Free
  BY ThreadFacts, Zenon DEF IInv, StopScheduler, Goto, OthersStay, LocksRespected,
     EntriesRespected, Free, ThreadTypeOK, taskVars, lockVars, threadVars, historyVars
<1>5. ThreadInv'
  BY <1>4, ThreadInvFreed, Zenon DEF IInv
<1>6. /\ TaskTypeOK' /\ TaskInv' /\ TableInv'
  BY TaskTypeOKFrame, TaskInvFrame, TableInvFrame, Zenon DEF IInv, StopScheduler, taskVars,
     mapVars, tableVars, lockVars, threadVars, historyVars
<1> QED
  BY <1>1, <1>2, <1>3, <1>5, <1>6, Zenon DEF IInv

LEMMA StopSchedulerEndsStep ==
  ASSUME IInv, StopSchedulerEnds
  PROVE  IInv'
<1>1. TableTypeOK'
  BY Zenon DEF IInv, StopSchedulerEnds, TableTypeOK, RecordsAre, ClearedRecords, flagVars,
     tableVars, lockVars, historyVars
<1>2. TaskTypeOK' /\ ThreadTypeOK'
  BY ThreadFacts, LabelFacts, ReasonFacts, Zenon DEF IInv, StopSchedulerEnds, Goto, Forget,
     TaskTypeOK, ThreadTypeOK, taskVars, mapVars, lockVars, threadVars
<1>3. RoleInv'
  BY ThreadFacts, Zenon DEF IInv, StopSchedulerEnds, Goto, Forget, ThreadTypeOK, TableTypeOK,
     RoleInv, flagVars, threadVars
<1>4. /\ "lifecycle" \in Threads /\ OthersStay("lifecycle") /\ LocksRespected("lifecycle")
      /\ EntriesRespected("lifecycle") /\ pc'["lifecycle"] \in Free
  BY ThreadFacts, Zenon DEF IInv, StopSchedulerEnds, Goto, Forget, OthersStay, LocksRespected,
     EntriesRespected, Free, ThreadTypeOK, RecordsAre, ClearedRecords, taskVars, lockVars,
     threadVars, historyVars
<1>5. ThreadInv'
  BY <1>4, ThreadInvFreed, Zenon DEF IInv
<1>6. /\ TaskInv' /\ TableInv'
  BY TaskInvFrame, TableInvFrame, Zenon DEF IInv, StopSchedulerEnds, RecordsAre, ClearedRecords,
     taskVars, mapVars, tableVars, threadVars, historyVars
<1> QED
  BY <1>1, <1>2, <1>3, <1>5, <1>6, Zenon DEF IInv

LEMMA ClearCancellationRecordsStep ==
  ASSUME IInv, ClearCancellationRecords
  PROVE  IInv'
<1>1. ThreadTypeOK'
  BY ThreadFacts, LabelFacts, ReasonFacts, Zenon DEF IInv, ClearCancellationRecords, Goto,
     Forget, ThreadTypeOK, threadVars
<1>2. RoleInv'
  BY ThreadFacts, Zenon DEF IInv, ClearCancellationRecords, Goto, Forget, ThreadTypeOK,
     TableTypeOK, RoleInv, flagVars, threadVars
<1>3. /\ "lifecycle" \in Threads /\ OthersStay("lifecycle") /\ LocksRespected("lifecycle")
      /\ EntriesRespected("lifecycle") /\ pc'["lifecycle"] \in Free
  BY ThreadFacts, Zenon DEF IInv, ClearCancellationRecords, Goto, Forget, OthersStay,
     LocksRespected, EntriesRespected, Free, ThreadTypeOK, RecordsAre, ClearedRecords,
     taskVars, lockVars, threadVars, historyVars
<1>4. ThreadInv'
  BY <1>3, ThreadInvFreed, Zenon DEF IInv
<1>5. /\ TaskTypeOK' /\ TableTypeOK' /\ TaskInv' /\ TableInv'
  BY TaskTypeOKFrame, TableTypeOKFrame, TaskInvFrame, TableInvFrame, Zenon DEF IInv,
     ClearCancellationRecords, RecordsAre, ClearedRecords, taskVars, mapVars, flagVars,
     tableVars, lockVars, threadVars, historyVars
<1> QED
  BY <1>1, <1>2, <1>4, <1>5, Zenon DEF IInv

LEMMA ScheduleDispatchStep ==
  ASSUME IInv, NEW t \in Threads, ScheduleDispatch(t)
  PROVE  IInv'
<1>1. TableTypeOK'
  BY Zenon DEF IInv, ScheduleDispatch, TableTypeOK, flagVars, tableVars, lockVars, historyVars
<1>2. ThreadTypeOK'
  BY ThreadFacts, LabelFacts, Zenon DEF IInv, ScheduleDispatch, AfterSchedule, ThreadTypeOK,
     threadVars
<1>3. RoleInv'
  BY ThreadFacts, Zenon DEF IInv, ScheduleDispatch, AfterSchedule, ThreadTypeOK, TableTypeOK,
     RoleInv, flagVars, threadVars
<1>4. ThreadInv'
  BY ThreadFacts DEF IInv, ScheduleDispatch, AfterSchedule, LockOf, StateOf, SendOf,
     ThreadTypeOK, Holding, RoleInv, ThreadInv, taskVars, lockVars, threadVars, historyVars
<1>5. /\ TaskTypeOK' /\ TaskInv' /\ TableInv'
  BY TaskTypeOKFrame, TaskInvFrame, TableInvFrame, Zenon DEF IInv, ScheduleDispatch, taskVars,
     mapVars, tableVars, lockVars, threadVars, historyVars
<1> QED
  BY <1>1, <1>2, <1>3, <1>4, <1>5, Zenon DEF IInv

LEMMA DispatchLoopEndsStep ==
  ASSUME IInv, DispatchLoopEnds
  PROVE  IInv'
<1>1. TableTypeOK'
  BY Zenon DEF IInv, DispatchLoopEnds, TableTypeOK, flagVars, tableVars, lockVars,
     historyVars
<1>2. ThreadTypeOK'
  BY ThreadFacts, LabelFacts, ReasonFacts, Zenon DEF IInv, DispatchLoopEnds, Goto, Forget,
     ThreadTypeOK, threadVars
<1>3. RoleInv'
  BY ThreadFacts, Zenon DEF IInv, DispatchLoopEnds, Goto, Forget, ThreadTypeOK, TableTypeOK,
     RoleInv, flagVars, threadVars
<1>4. /\ "dispatcher" \in Threads /\ OthersStay("dispatcher") /\ LocksRespected("dispatcher")
      /\ EntriesRespected("dispatcher") /\ pc'["dispatcher"] \in Free
  BY ThreadFacts, Zenon DEF IInv, DispatchLoopEnds, Goto, Forget, OthersStay, LocksRespected,
     EntriesRespected, Free, ThreadTypeOK, taskVars, lockVars, threadVars, historyVars
<1>5. ThreadInv'
  BY <1>4, ThreadInvFreed, Zenon DEF IInv
<1>6. /\ TaskTypeOK' /\ TaskInv' /\ TableInv'
  BY TaskTypeOKFrame, TaskInvFrame, TableInvFrame, Zenon DEF IInv, DispatchLoopEnds, taskVars,
     mapVars, tableVars, lockVars, threadVars, historyVars
<1> QED
  BY <1>1, <1>2, <1>3, <1>5, <1>6, Zenon DEF IInv

LEMMA DispatchLoopSelectsStep ==
  ASSUME IInv, DispatchLoopSelects
  PROVE  IInv'
<1>1. ThreadTypeOK'
  BY ThreadFacts, LabelFacts, SelectableType, Zenon DEF IInv, DispatchLoopSelects, Goto,
     ThreadTypeOK, threadVars
<1>2. RoleInv'
  BY ThreadFacts, Zenon DEF IInv, DispatchLoopSelects, Goto, ThreadTypeOK, TableTypeOK, RoleInv,
     flagVars, threadVars
<1>3. /\ "dispatcher" \in Threads /\ OthersStay("dispatcher") /\ LocksRespected("dispatcher")
      /\ EntriesRespected("dispatcher")
  BY ThreadFacts, Zenon DEF IInv, DispatchLoopSelects, Goto, OthersStay, LocksRespected,
     EntriesRespected, ThreadTypeOK, taskVars, lockVars, threadVars, historyVars
<1>4. LockOf("dispatcher")' /\ StateOf("dispatcher")' /\ SendOf("dispatcher")'
  BY ThreadFacts, SelectableType, Zenon
     DEF IInv, DispatchLoopSelects, Goto, LockOf, StateOf, SendOf, Holding, ThreadTypeOK
<1>5. ThreadInv'
  BY <1>3, <1>4, ThreadInvKept, Zenon DEF IInv
<1>6. /\ TaskTypeOK' /\ TableTypeOK' /\ TaskInv' /\ TableInv'
  BY TaskTypeOKFrame, TableTypeOKFrame, TaskInvFrame, TableInvFrame, Zenon DEF IInv,
     DispatchLoopSelects, taskVars, mapVars, flagVars, tableVars, lockVars, threadVars,
     historyVars
<1> QED
  BY <1>1, <1>2, <1>5, <1>6, Zenon DEF IInv

LEMMA ActivateTaskStep ==
  ASSUME IInv, ActivateTask
  PROVE  IInv'
<1>1. TaskTypeOK'
  <2>1. state' \in [Keys -> States]
    BY BeginCancelType, Facts, ReasonFacts, Zenon DEF IInv, ActivateTask, TaskTypeOK
  <2> QED
    BY <2>1, Facts DEF IInv, ActivateTask, TaskTypeOK, taskVars, mapVars, lockVars
<1>2. ThreadTypeOK'
  <2>1. why' \in [Threads -> Reasons] /\ pc' \in [Threads -> Labels]
    BY BeginCancelType, GotoType, Facts, LabelFacts, ReasonFacts, Zenon
       DEF IInv, ActivateTask, ThreadTypeOK
  <2> QED
    BY <2>1, Facts, Zenon DEF IInv, ActivateTask, Forget, ThreadTypeOK, threadVars
<1>3. TaskInv'
  <2>1. \/ UNCHANGED state
        \/ /\ state[cur["dispatcher"]] = "PENDING"
           /\ BeginCancel("dispatcher", cur["dispatcher"], "INTERNAL_ERROR")
    BY Zenon DEF IInv, ActivateTask
  <2> QED
    BY <2>1 DEF IInv, ActivateTask, BeginCancel, Outstanding, TaskTypeOK, TaskInv,
       taskVars, mapVars
<1>4. RoleInv'
  BY ThreadFacts DEF IInv, ActivateTask, Goto, Forget, BeginCancel, ThreadTypeOK,
     TableTypeOK, RoleInv, flagVars, threadVars
<1>5. OthersStay("dispatcher")
  <2>1. CASE /\ Goto("dispatcher", "select") /\ cur' = Forget(cur, "dispatcher", 0)
             /\ UNCHANGED <<state, taskLock>>
    BY <2>1, ThreadFacts, Zenon DEF IInv, ActivateTask, Goto, Forget, OthersStay, ThreadTypeOK
  <2>2. CASE /\ state[cur["dispatcher"]] = "PENDING" /\ UNCHANGED cur
             /\ taskLock' = [taskLock EXCEPT ![cur["dispatcher"]] = "dispatcher"]
             /\ BeginCancel("dispatcher", cur["dispatcher"], "INTERNAL_ERROR")
    BY <2>2, ThreadFacts, Zenon DEF IInv, ActivateTask, BeginCancel, Goto, OthersStay, ThreadTypeOK
  <2>3. CASE /\ state[cur["dispatcher"]] = "PENDING" /\ UNCHANGED <<state, cur>>
             /\ taskLock' = [taskLock EXCEPT ![cur["dispatcher"]] = "dispatcher"]
             /\ Goto("dispatcher", "lookup")
    BY <2>3, ThreadFacts, Zenon DEF IInv, ActivateTask, Goto, OthersStay, ThreadTypeOK
  <2> QED
    BY <2>1, <2>2, <2>3, Zenon DEF ActivateTask
<1>6. LocksRespected("dispatcher")
  <2>1. CASE /\ Goto("dispatcher", "select") /\ cur' = Forget(cur, "dispatcher", 0)
             /\ UNCHANGED <<state, taskLock>>
    BY <2>1, ThreadFacts, Zenon DEF IInv, ActivateTask, Goto, Forget, LocksRespected, TaskTypeOK
  <2>2. CASE /\ state[cur["dispatcher"]] = "PENDING" /\ UNCHANGED cur
             /\ taskLock' = [taskLock EXCEPT ![cur["dispatcher"]] = "dispatcher"]
             /\ BeginCancel("dispatcher", cur["dispatcher"], "INTERNAL_ERROR")
    BY <2>2, ThreadFacts, Zenon DEF IInv, ActivateTask, BeginCancel, Goto, LocksRespected,
       TaskTypeOK
  <2>3. CASE /\ state[cur["dispatcher"]] = "PENDING" /\ UNCHANGED <<state, cur>>
             /\ taskLock' = [taskLock EXCEPT ![cur["dispatcher"]] = "dispatcher"]
             /\ Goto("dispatcher", "lookup")
    BY <2>3, ThreadFacts, Zenon DEF IInv, ActivateTask, Goto, LocksRespected, TaskTypeOK
  <2> QED
    BY <2>1, <2>2, <2>3, Zenon DEF ActivateTask
<1>7. /\ "dispatcher" \in Threads /\ EntriesRespected("dispatcher")
  BY ThreadFacts, Zenon DEF IInv, ActivateTask, Goto, Forget, BeginCancel, EntriesRespected,
     ThreadTypeOK, taskVars, lockVars, threadVars, historyVars
<1>8. LockOf("dispatcher")' /\ StateOf("dispatcher")' /\ SendOf("dispatcher")'
  <2> DEFINE k == cur["dispatcher"]
  <2>1. k \in Keys
    BY ThreadFacts, Zenon DEF IInv, ActivateTask, ThreadInv, LockOf
  <2>2. CASE Goto("dispatcher", "select")
    <3>1. pc'["dispatcher"] = "select"
      BY <2>2, ThreadFacts, Zenon DEF IInv, Goto, ThreadTypeOK
    <3> QED
      BY <3>1, Zenon DEF LockOf, StateOf, SendOf, Holding
  <2>3. CASE /\ UNCHANGED cur /\ taskLock' = [taskLock EXCEPT ![k] = "dispatcher"]
             /\ BeginCancel("dispatcher", k, "INTERNAL_ERROR")
    <3>1. /\ pc'["dispatcher"] = "record" /\ cur'["dispatcher"] = k
          /\ taskLock'[k] = "dispatcher" /\ state'[k] = "CANCELLED"
      BY <2>1, <2>3, ThreadFacts, Zenon DEF IInv, BeginCancel, Goto, ThreadTypeOK, TaskTypeOK
    <3> QED
      BY <2>1, <3>1, Zenon DEF LockOf, StateOf, SendOf, Holding
  <2>4. CASE /\ state[k] = "PENDING" /\ UNCHANGED <<state, cur>>
             /\ taskLock' = [taskLock EXCEPT ![k] = "dispatcher"]
             /\ Goto("dispatcher", "lookup")
    <3>1. /\ pc'["dispatcher"] = "lookup" /\ cur'["dispatcher"] = k
          /\ taskLock'[k] = "dispatcher" /\ state'[k] = "PENDING"
      BY <2>1, <2>4, ThreadFacts, Zenon DEF IInv, Goto, ThreadTypeOK, TaskTypeOK
    <3> QED
      BY <2>1, <3>1, Zenon DEF LockOf, StateOf, SendOf, Holding
  <2> QED
    BY <2>2, <2>3, <2>4, Zenon DEF ActivateTask
<1>9. ThreadInv'
  BY <1>5, <1>6, <1>7, <1>8, ThreadInvKept, Zenon DEF IInv
<1>10. /\ TableTypeOK' /\ TableInv'
  BY TableTypeOKFrame, TableInvFrame, Zenon DEF IInv, ActivateTask, flagVars, tableVars, lockVars,
     threadVars, historyVars
<1> QED
  BY <1>1, <1>2, <1>3, <1>4, <1>9, <1>10, Zenon DEF IInv

LEMMA FetchDispatchedStep ==
  ASSUME IInv, FetchDispatched
  PROVE  IInv'
<1>1. TaskInv'
  <2>1. cur["dispatcher"] \in Keys /\ state[cur["dispatcher"]] = "PENDING"
    BY ThreadFacts, Zenon DEF IInv, FetchDispatched, ThreadInv, LockOf, StateOf, Holding
  <2> QED
    BY <2>1, TaskInvMoves, Zenon DEF IInv, FetchDispatched, Outstanding
<1>2. TaskTypeOK' /\ ThreadTypeOK'
  BY Facts, ThreadFacts, LabelFacts, Zenon DEF IInv, FetchDispatched, Goto, Forget,
     TaskTypeOK, ThreadTypeOK, taskVars, mapVars, lockVars, threadVars
<1>3. RoleInv'
  BY ThreadFacts, Zenon DEF IInv, FetchDispatched, Goto, Forget, ThreadTypeOK, TableTypeOK,
     RoleInv, flagVars, threadVars
<1>4. /\ "dispatcher" \in Threads /\ OthersStay("dispatcher") /\ LocksRespected("dispatcher")
      /\ EntriesRespected("dispatcher")
  BY ThreadFacts DEF IInv, FetchDispatched, Goto, Forget, OthersStay, LocksRespected,
     EntriesRespected, ThreadTypeOK, ThreadInv, LockOf, Holding, TaskTypeOK, taskVars,
     lockVars, threadVars, historyVars
<1>5. LockOf("dispatcher")' /\ StateOf("dispatcher")' /\ SendOf("dispatcher")'
  BY ThreadFacts DEF IInv, FetchDispatched, Goto, Forget, LockOf, StateOf, SendOf,
     ThreadInv, Holding, ThreadTypeOK, TaskTypeOK, taskVars, lockVars, threadVars, historyVars
<1>6. ThreadInv'
  BY <1>4, <1>5, ThreadInvKept, Zenon DEF IInv
<1>7. /\ TableTypeOK' /\ TableInv'
  BY TableTypeOKFrame, TableInvFrame, Zenon DEF IInv, FetchDispatched, flagVars, tableVars,
     lockVars, threadVars, historyVars
<1> QED
  BY <1>1, <1>2, <1>3, <1>6, <1>7, Zenon DEF IInv

LEMMA DispatchBarrierStep ==
  ASSUME IInv, NEW t \in Threads, DispatchBarrier(t)
  PROVE  IInv'
<1>1. TableInv'
  <2>1. PICK e \in barrier[t] : /\ barrier' = [barrier EXCEPT ![t] = @ \ {e}]
                                /\ closed' = closed \cup {e}
    BY Zenon DEF IInv, DispatchBarrier
  <2>2. \A u \in Threads : barrier'[u] \subseteq barrier[u]
    BY <2>1, Zenon DEF IInv, ThreadTypeOK
  <2>3. e < nextEntry /\ \A a \in Apps : table[a] # 0 => table[a] # e
    BY <2>1 DEF IInv, TableInv
  <2> QED
    BY <2>1, <2>2, <2>3, Zenon DEF IInv, DispatchBarrier, TableInv, tableVars
<1>2. TableTypeOK' /\ ThreadTypeOK'
  BY DEF IInv, DispatchBarrier, ThreadTypeOK, TableTypeOK, flagVars, tableVars, lockVars,
     threadVars, historyVars
<1>3. EntriesRespected(t)
  BY ThreadFacts, Zenon DEF DispatchBarrier, EntriesRespected, lockVars
<1>4. /\ OthersStay(t) /\ LocksRespected(t)
  BY ThreadFacts, Zenon DEF IInv, DispatchBarrier, OthersStay, LocksRespected, ThreadTypeOK,
     taskVars, lockVars, threadVars, historyVars
<1>5. LockOf(t)' /\ StateOf(t)' /\ SendOf(t)'
  BY Zenon DEF IInv, DispatchBarrier, ThreadInv, LockOf, StateOf, SendOf, Holding
<1>6. ThreadInv'
  BY <1>3, <1>4, <1>5, ThreadInvKept, Zenon DEF IInv
<1>7. /\ TaskTypeOK' /\ RoleInv' /\ TaskInv'
  BY TaskTypeOKFrame, RoleInvFrame, TaskInvFrame, Zenon DEF IInv, DispatchBarrier, taskVars,
     mapVars, flagVars, lockVars, threadVars
<1> QED
  BY <1>1, <1>2, <1>6, <1>7, Zenon DEF IInv

(* A dispatch that fails, at any of its three steps.                       *)
LEMMA DispatchFailsStep ==
  ASSUME IInv, NEW t \in Threads, pc[t] \in {"lookup", "lock", "send"}, DispatchFails(t),
         \/ entry' = entry
         \/ entry' = Forget(entry, t, 0),
         \/ dispatchLock' = dispatchLock
         \/ pc[t] = "send" /\ dispatchLock' = [dispatchLock EXCEPT ![entry[t]] = NoThread],
         UNCHANGED <<file, prio, fetchDispatched, writes, taskMap, deadline, nextKey,
                     flagVars, tableVars, taskLock, todo, cur, barrier, closed>>
  PROVE  IInv'
<1>1. /\ cur[t] \in Keys /\ taskLock[cur[t]] = t
      /\ state' = [state EXCEPT ![cur[t]] = "CANCELLED"]
      /\ \/ pc' = [pc EXCEPT ![t] = "record"]
         \/ pc' = [pc EXCEPT ![t] = "erase"]
  BY DispatchFailsEffect, Zenon DEF IInv
<1>2. /\ state' \in [Keys -> States] /\ why' \in [Threads -> Reasons]
      /\ pc' \in [Threads -> Labels]
  BY DispatchFailsType, Zenon DEF IInv
<1>3. pc'[t] \in {"record", "erase"} /\ state'[cur[t]] = "CANCELLED"
  BY <1>1, Zenon DEF IInv, TaskTypeOK, ThreadTypeOK
<1>4. \A u \in Threads \ {t} : pc'[u] = pc[u] /\ why'[u] = why[u]
  BY Zenon DEF IInv, DispatchFails, BeginCancel, Goto, ThreadTypeOK
<1>5. TaskTypeOK' /\ ThreadTypeOK'
  BY <1>2, Zenon DEF IInv, TaskTypeOK, ThreadTypeOK, Forget
<1>6. TableTypeOK'
  <2>1. dispatchLock' \in [Entries -> Threads \cup {NoThread}]
    BY Zenon DEF IInv, TableTypeOK
  <2> QED
    BY <2>1, Zenon DEF IInv, TableTypeOK, flagVars, tableVars
<1>7. RoleInv'
  BY <1>3, <1>4, ThreadFacts, Zenon DEF IInv, RoleInv, flagVars
<1>8. TaskInv'
  <2>1. state[cur[t]] # "ABSENT"
    BY Zenon DEF IInv, ThreadInv, StateOf
  <2> QED
    BY <1>1, <2>1, TaskInvMoves, Zenon DEF IInv
<1>9. TableInv'
  BY TableInvFrame, Zenon DEF IInv, tableVars
<1>10. OthersStay(t) /\ LocksRespected(t)
  BY <1>1, <1>4, Zenon DEF IInv, OthersStay, LocksRespected, Forget, TaskTypeOK, ThreadTypeOK
<1>11. EntriesRespected(t)
  <2>1. pc[t] = "send" => dispatchLock[entry[t]] = t
    BY Zenon DEF IInv, ThreadInv, SendOf
  <2> QED
    BY <2>1, Zenon DEF IInv, TableTypeOK, EntriesRespected
<1>12. LockOf(t)' /\ StateOf(t)' /\ SendOf(t)'
  BY <1>1, <1>3, Zenon DEF LockOf, StateOf, SendOf, Holding
<1>13. ThreadInv'
  BY <1>10, <1>11, <1>12, ThreadInvKept, Zenon DEF IInv
<1> QED
  BY <1>5, <1>6, <1>7, <1>8, <1>9, <1>13, Zenon DEF IInv

LEMMA FindEntryStep ==
  ASSUME IInv, NEW t \in Threads, FindEntry(t)
  PROVE  IInv'
<1>1. /\ pc[t] = "lookup"
      /\ UNCHANGED <<file, prio, fetchDispatched, writes, taskMap, deadline, nextKey,
                     flagVars, tableVars, lockVars, todo, cur, barrier, closed>>
  BY Zenon DEF FindEntry, mapVars, historyVars
<1>2. CASE DispatchFails(t) /\ UNCHANGED entry
  BY <1>1, <1>2, DispatchFailsStep, Zenon DEF lockVars
<1>3. CASE /\ table[App(cur[t])] # 0
           /\ entry' = [entry EXCEPT ![t] = table[App(cur[t])]]
           /\ Goto(t, "lock") /\ UNCHANGED <<state, why>>
  <2>1. table[App(cur[t])] \in Entries
    <3>1. App(cur[t]) \in Apps
      BY <1>1, AppOfAssumption, Zenon DEF IInv, ThreadInv, LockOf, Holding, App, TaskTypeOK
    <3> QED
      BY <1>3, <3>1, Zenon DEF IInv, TableTypeOK
  <2>2. pc'[t] = "lock" /\ entry'[t] \in Entries
    BY <1>3, <2>1, Zenon DEF IInv, Goto, ThreadTypeOK
  <2>3. OthersStay(t)
    BY <1>1, <1>3, Zenon DEF IInv, Goto, OthersStay, ThreadTypeOK
  <2>4. ThreadTypeOK'
    BY <1>1, <1>3, <2>1, LabelFacts, Zenon DEF IInv, Goto, ThreadTypeOK
  <2>5. RoleInv'
    BY <1>1, <1>3, <2>2, <2>3, ThreadFacts, Zenon DEF IInv, RoleInv, OthersStay, flagVars
  <2>6. LocksRespected(t) /\ EntriesRespected(t)
    BY <1>1, <1>3, Zenon DEF LocksRespected, EntriesRespected, lockVars
  <2>7. LockOf(t)' /\ StateOf(t)' /\ SendOf(t)'
    BY <1>1, <1>3, <2>2, Zenon DEF IInv, ThreadInv, LockOf, StateOf, SendOf, Holding,
       lockVars
  <2>8. ThreadInv'
    BY <2>3, <2>6, <2>7, ThreadInvKept, Zenon DEF IInv
  <2>9. TaskTypeOK' /\ TaskInv'
    BY <1>1, <1>3, TaskTypeOKFrame, TaskInvFrame, Zenon DEF IInv, lockVars
  <2>10. TableTypeOK' /\ TableInv'
    BY <1>1, TableTypeOKFrame, TableInvFrame, Zenon DEF IInv, flagVars, tableVars, lockVars
  <2> QED
    BY <2>4, <2>5, <2>8, <2>9, <2>10, Zenon DEF IInv
<1> QED
  BY <1>2, <1>3, Zenon DEF FindEntry

LEMMA LockEntryStep ==
  ASSUME IInv, NEW t \in Threads, LockEntry(t)
  PROVE  IInv'
<1>1. /\ pc[t] = "lock" /\ dispatchLock[entry[t]] = NoThread
      /\ UNCHANGED <<file, prio, fetchDispatched, writes, taskMap, deadline, nextKey,
                     flagVars, tableVars, taskLock, todo, cur, barrier, closed>>
  BY Zenon DEF LockEntry, mapVars, historyVars
<1>2. CASE DispatchFails(t) /\ entry' = Forget(entry, t, 0) /\ UNCHANGED dispatchLock
  BY <1>1, <1>2, DispatchFailsStep, Zenon
<1>3. CASE /\ table[App(cur[t])] = entry[t]
           /\ dispatchLock' = [dispatchLock EXCEPT ![entry[t]] = t]
           /\ Goto(t, "send") /\ UNCHANGED <<state, why, entry>>
  <2>1. entry[t] \in Entries
    BY <1>1, Zenon DEF IInv, ThreadInv, SendOf
  <2>2. entry[t] \notin closed
    <3>1. App(cur[t]) \in Apps
      BY <1>1, AppOfAssumption, Zenon DEF IInv, ThreadInv, LockOf, Holding, App, TaskTypeOK
    <3> QED
      BY <1>3, <2>1, <3>1, EntryFacts, Zenon DEF IInv, TableInv
  <2>3. pc'[t] = "send" /\ dispatchLock'[entry[t]] = t
    BY <1>3, <2>1, Zenon DEF IInv, Goto, ThreadTypeOK, TableTypeOK
  <2>4. OthersStay(t)
    BY <1>1, <1>3, Zenon DEF IInv, Goto, OthersStay, ThreadTypeOK
  <2>5. ThreadTypeOK'
    BY <1>1, <1>3, LabelFacts, Zenon DEF IInv, Goto, ThreadTypeOK
  <2>6. TableTypeOK'
    <3>1. dispatchLock' \in [Entries -> Threads \cup {NoThread}]
      BY <1>3, Zenon DEF IInv, TableTypeOK
    <3> QED
      BY <1>1, <3>1, Zenon DEF IInv, TableTypeOK, flagVars, tableVars
  <2>7. RoleInv'
    BY <1>1, <1>3, <2>3, <2>4, ThreadFacts, Zenon DEF IInv, RoleInv, OthersStay, flagVars
  <2>8. LocksRespected(t) /\ EntriesRespected(t)
    BY <1>1, <1>3, ThreadFacts, Zenon DEF IInv, TableTypeOK, LocksRespected,
       EntriesRespected
  <2>9. LockOf(t)' /\ StateOf(t)' /\ SendOf(t)'
    BY <1>1, <1>3, <2>1, <2>2, <2>3, Zenon DEF IInv, ThreadInv, LockOf, StateOf, SendOf,
       Holding
  <2>10. ThreadInv'
    BY <2>4, <2>8, <2>9, ThreadInvKept, Zenon DEF IInv
  <2>11. TaskTypeOK' /\ TaskInv' /\ TableInv'
    BY <1>1, <1>3, TaskTypeOKFrame, TaskInvFrame, TableInvFrame, Zenon DEF IInv, tableVars
  <2> QED
    BY <2>5, <2>6, <2>7, <2>10, <2>11, Zenon DEF IInv
<1> QED
  BY <1>2, <1>3, Zenon DEF LockEntry

LEMMA SendCallbackStep ==
  ASSUME IInv, NEW t \in Threads, SendCallback(t)
  PROVE  IInv'
<1>1. /\ pc[t] = "send" /\ entry' = Forget(entry, t, 0)
      /\ dispatchLock' = [dispatchLock EXCEPT ![entry[t]] = NoThread]
      /\ UNCHANGED <<file, prio, fetchDispatched, writes, taskMap, deadline, nextKey,
                     flagVars, tableVars, taskLock, todo, cur, barrier, closed>>
  BY Zenon DEF SendCallback, mapVars, historyVars
<1>2. CASE DispatchFails(t)
  BY <1>1, <1>2, DispatchFailsStep, Zenon
<1>3. CASE /\ Goto(t, IF Fetching(t) THEN "sent" ELSE "erase")
           /\ UNCHANGED <<state, why>>
  <2>1. pc'[t] = IF state[cur[t]] = "PENDING" THEN "sent" ELSE "erase"
    BY <1>3, Zenon DEF IInv, Goto, Fetching, ThreadTypeOK
  <2>2. \/ state[cur[t]] = "CANCELLED"
        \/ state[cur[t]] = "PENDING" /\ t = "dispatcher"
    BY <1>1, Zenon DEF IInv, ThreadInv, StateOf
  <2>3. OthersStay(t)
    BY <1>1, <1>3, Zenon DEF IInv, Goto, Forget, OthersStay, ThreadTypeOK
  <2>4. ThreadTypeOK'
    BY <1>1, <1>3, LabelFacts, Zenon DEF IInv, Goto, Forget, ThreadTypeOK
  <2>5. TableTypeOK'
    <3>1. dispatchLock' \in [Entries -> Threads \cup {NoThread}]
      BY <1>1, Zenon DEF IInv, TableTypeOK
    <3> QED
      BY <1>1, <3>1, Zenon DEF IInv, TableTypeOK, flagVars, tableVars
  <2>6. RoleInv'
    BY <1>1, <1>3, <2>1, <2>3, ThreadFacts, Zenon DEF IInv, RoleInv, OthersStay, flagVars
  <2>7. LocksRespected(t)
    BY <1>1, <1>3, Zenon DEF LocksRespected
  <2>8. EntriesRespected(t)
    <3>1. dispatchLock[entry[t]] = t
      BY <1>1, Zenon DEF IInv, ThreadInv, SendOf
    <3> QED
      BY <1>1, <3>1, Zenon DEF IInv, TableTypeOK, EntriesRespected
  <2>9. LockOf(t)' /\ StateOf(t)' /\ SendOf(t)'
    BY <1>1, <1>3, <2>1, <2>2, Zenon DEF IInv, ThreadInv, LockOf, StateOf, SendOf, Holding
  <2>10. ThreadInv'
    BY <2>3, <2>7, <2>8, <2>9, ThreadInvKept, Zenon DEF IInv
  <2>11. TaskTypeOK' /\ TaskInv' /\ TableInv'
    BY <1>1, <1>3, TaskTypeOKFrame, TaskInvFrame, TableInvFrame, Zenon DEF IInv, tableVars
  <2> QED
    BY <2>4, <2>5, <2>6, <2>10, <2>11, Zenon DEF IInv
<1> QED
  BY <1>2, <1>3, Zenon DEF SendCallback

LEMMA KeepRecordStep ==
  ASSUME IInv, NEW t \in Threads, KeepRecord(t)
  PROVE  IInv'
<1>1. ThreadTypeOK'
  BY LabelFacts, Zenon DEF IInv, KeepRecord, Goto, ThreadTypeOK, threadVars
<1>2. RoleInv'
  BY ThreadFacts, Zenon DEF IInv, KeepRecord, Goto, ThreadTypeOK, TableTypeOK,
     ShouldNotifyCancellation, RoleInv, flagVars, threadVars
<1>3. /\ OthersStay(t) /\ LocksRespected(t) /\ EntriesRespected(t)
  BY ThreadFacts, Zenon DEF IInv, KeepRecord, Goto, OthersStay, LocksRespected, EntriesRespected,
     ThreadTypeOK, RecordsAre, AddCancellationRecord, taskVars, lockVars, threadVars,
     historyVars
<1>4. LockOf(t)' /\ StateOf(t)' /\ SendOf(t)'
  BY ThreadFacts DEF IInv, KeepRecord, Goto, LockOf, StateOf, SendOf, ThreadInv, Holding,
     ThreadTypeOK, TaskTypeOK, RecordsAre, AddCancellationRecord, taskVars, lockVars,
     threadVars, historyVars
<1>5. ThreadInv'
  BY <1>3, <1>4, ThreadInvKept, Zenon DEF IInv
<1>6. /\ TaskTypeOK' /\ TableTypeOK' /\ TaskInv' /\ TableInv'
  BY TaskTypeOKFrame, TableTypeOKFrame, TaskInvFrame, TableInvFrame, Zenon DEF IInv, KeepRecord,
     RecordsAre, AddCancellationRecord, taskVars, mapVars, flagVars, tableVars, lockVars,
     threadVars, historyVars
<1> QED
  BY <1>1, <1>2, <1>5, <1>6, Zenon DEF IInv

LEMMA EraseTaskStep ==
  ASSUME IInv, NEW t \in Threads, EraseTask(t)
  PROVE  IInv'
<1>1. TaskInv'
  <2>1. cur[t] \in Keys /\ ~Outstanding(cur[t])
    BY Zenon DEF IInv, EraseTask, ThreadInv, LockOf, StateOf, Holding, Outstanding
  <2> QED
    BY <2>1, Zenon DEF IInv, EraseTask, TaskInv, Outstanding, taskVars
<1>2. TaskTypeOK' /\ ThreadTypeOK'
  BY LabelFacts, Zenon DEF IInv, EraseTask, Goto, Forget, TaskTypeOK, ThreadTypeOK,
     taskVars, mapVars, lockVars, threadVars
<1>3. RoleInv'
  BY ThreadFacts, Zenon DEF IInv, EraseTask, Goto, Forget, ThreadTypeOK, TableTypeOK, RoleInv,
     flagVars, threadVars
<1>4. /\ OthersStay(t) /\ LocksRespected(t) /\ EntriesRespected(t)
  BY ThreadFacts DEF IInv, EraseTask, Goto, Forget, OthersStay, LocksRespected,
     EntriesRespected, ThreadTypeOK, ThreadInv, LockOf, Holding, TaskTypeOK, taskVars,
     lockVars, threadVars, historyVars
<1>5. LockOf(t)' /\ StateOf(t)' /\ SendOf(t)'
  BY ThreadFacts DEF IInv, EraseTask, Goto, Forget, LockOf, StateOf, SendOf, ThreadInv,
     Holding, ThreadTypeOK, TaskTypeOK, taskVars, lockVars, threadVars, historyVars
<1>6. ThreadInv'
  BY <1>4, <1>5, ThreadInvKept, Zenon DEF IInv
<1>7. /\ TableTypeOK' /\ TableInv'
  BY TableTypeOKFrame, TableInvFrame, Zenon DEF IInv, EraseTask, flagVars, tableVars, lockVars,
     threadVars, historyVars
<1> QED
  BY <1>1, <1>2, <1>3, <1>6, <1>7, Zenon DEF IInv

LEMMA CancelNextStep ==
  ASSUME IInv, NEW t \in Threads, CancelNext(t)
  PROVE  IInv'
<1>1. TaskTypeOK'
  <2>1. PICK k \in todo[t] :
          \/ taskLock' = [taskLock EXCEPT ![k] = t] /\ BeginCancel(t, k, why[t])
          \/ UNCHANGED <<state, taskLock>>
    BY Zenon DEF IInv, CancelNext
  <2>2. state' \in [Keys -> States]
    BY <2>1, BeginCancelType, Zenon DEF IInv, TaskTypeOK, ThreadTypeOK
  <2>3. taskLock' \in [Keys -> Threads \cup {NoThread}]
    BY <2>1, Zenon DEF IInv, TaskTypeOK
  <2> QED
    BY <2>2, <2>3, Zenon DEF IInv, CancelNext, TaskTypeOK, taskVars, mapVars, lockVars
<1>2. ThreadTypeOK'
  <2>1. PICK k \in todo[t] :
          /\ todo' = [todo EXCEPT ![t] = @ \ {k}]
          /\ \/ cur' = [cur EXCEPT ![t] = k] /\ BeginCancel(t, k, why[t])
             \/ UNCHANGED <<cur, why, pc>>
    BY Zenon DEF IInv, CancelNext
  <2>2. k \in Keys /\ why[t] \in Reasons
    BY <2>1, Zenon DEF IInv, ThreadTypeOK
  <2>3. why' \in [Threads -> Reasons] /\ pc' \in [Threads -> Labels]
    BY <2>1, <2>2, BeginCancelType, Zenon DEF IInv, ThreadTypeOK
  <2>4. cur' \in [Threads -> Keys \cup {0}] /\ todo' \in [Threads -> SUBSET Keys]
    BY <2>1, <2>2, Zenon DEF IInv, ThreadTypeOK
  <2> QED
    BY <2>3, <2>4, Zenon DEF IInv, CancelNext, ThreadTypeOK, threadVars
<1>3. TaskInv'
  <2>1. PICK k \in todo[t] : \/ StillToCancel(t, k) /\ BeginCancel(t, k, why[t])
                             \/ UNCHANGED state
    BY Zenon DEF IInv, CancelNext
  <2> QED
    BY <2>1 DEF IInv, CancelNext, BeginCancel, StillToCancel, Outstanding, TaskTypeOK,
       TaskInv, taskVars, mapVars
<1>4. RoleInv'
  BY ThreadFacts DEF IInv, CancelNext, Goto, BeginCancel, StillToCancel, Outstanding,
     ThreadTypeOK, TableTypeOK, RoleInv, flagVars, threadVars
<1>5. OthersStay(t)
  <2>1. PICK k \in todo[t] :
          \/ cur' = [cur EXCEPT ![t] = k] /\ BeginCancel(t, k, why[t])
          \/ UNCHANGED <<cur, pc>>
    BY Zenon DEF CancelNext
  <2> QED
    BY <2>1, Zenon DEF IInv, CancelNext, BeginCancel, Goto, OthersStay, ThreadTypeOK
<1>6. LocksRespected(t)
  <2>1. PICK k \in todo[t] :
          /\ taskLock[k] = NoThread
          /\ \/ taskLock' = [taskLock EXCEPT ![k] = t] /\ BeginCancel(t, k, why[t])
             \/ UNCHANGED <<state, taskLock>>
    BY Zenon DEF CancelNext
  <2> QED
    BY <2>1, ThreadFacts, Zenon DEF IInv, BeginCancel, LocksRespected, TaskTypeOK
<1>7. /\ EntriesRespected(t)
  BY ThreadFacts, Zenon DEF IInv, CancelNext, Goto, BeginCancel, StillToCancel, Outstanding,
     EntriesRespected, ThreadTypeOK, taskVars, lockVars, threadVars, historyVars
<1>8. LockOf(t)' /\ StateOf(t)' /\ SendOf(t)'
  <2>1. PICK k \in todo[t] :
          \/ /\ taskLock' = [taskLock EXCEPT ![k] = t] /\ cur' = [cur EXCEPT ![t] = k]
             /\ BeginCancel(t, k, why[t])
          \/ UNCHANGED pc
    BY Zenon DEF CancelNext
  <2>2. k \in Keys
    BY Zenon DEF IInv, ThreadTypeOK
  <2>3. CASE UNCHANGED pc
    BY <2>3, Zenon DEF CancelNext, LockOf, StateOf, SendOf, Holding
  <2>4. CASE /\ taskLock' = [taskLock EXCEPT ![k] = t] /\ cur' = [cur EXCEPT ![t] = k]
             /\ BeginCancel(t, k, why[t])
    BY <2>2, <2>4, Zenon DEF IInv, BeginCancel, Goto, LockOf, StateOf, SendOf, Holding, TaskTypeOK,
                      ThreadTypeOK
  <2> QED
    BY <2>1, <2>3, <2>4, Zenon
<1>9. ThreadInv'
  BY <1>5, <1>6, <1>7, <1>8, ThreadInvKept, Zenon DEF IInv
<1>10. /\ TableTypeOK' /\ TableInv'
  BY TableTypeOKFrame, TableInvFrame, Zenon DEF IInv, CancelNext, flagVars, tableVars, lockVars,
     threadVars, historyVars
<1> QED
  BY <1>1, <1>2, <1>3, <1>4, <1>9, <1>10, Zenon DEF IInv

LEMMA CancelDoneStep ==
  ASSUME IInv, NEW t \in Threads, CancelDone(t)
  PROVE  IInv'
<1>1. ThreadTypeOK'
  BY LabelFacts, ReasonFacts, Zenon DEF IInv, CancelDone, Goto, Forget, ThreadTypeOK, threadVars
<1>2. RoleInv'
  BY ThreadFacts, Zenon DEF IInv, CancelDone, Goto, Forget, ThreadTypeOK, TableTypeOK, RoleInv,
     flagVars, threadVars
<1>3. /\ OthersStay(t) /\ LocksRespected(t) /\ EntriesRespected(t)
      /\ pc'[t] \in Free
  BY ThreadFacts, Zenon DEF IInv, CancelDone, Goto, Forget, OthersStay, LocksRespected,
     EntriesRespected, Free, ThreadTypeOK, taskVars, lockVars, threadVars, historyVars
<1>4. ThreadInv'
  BY <1>3, ThreadInvFreed, Zenon DEF IInv
<1>5. /\ TaskTypeOK' /\ TableTypeOK' /\ TaskInv' /\ TableInv'
  BY TaskTypeOKFrame, TableTypeOKFrame, TaskInvFrame, TableInvFrame, Zenon DEF IInv, CancelDone,
     taskVars, mapVars, flagVars, tableVars, lockVars, threadVars, historyVars
<1> QED
  BY <1>1, <1>2, <1>4, <1>5, Zenon DEF IInv

LEMMA ExecuteLocksStep ==
  ASSUME IInv, NEW t \in Threads, ExecuteLocks(t)
  PROVE  IInv'
<1>1. TaskTypeOK' /\ ThreadTypeOK'
  BY LabelFacts DEF IInv, ExecuteLocks, Goto, Forget, TaskTypeOK, ThreadTypeOK, taskVars,
     mapVars, lockVars, threadVars
<1>2. RoleInv'
  BY ThreadFacts DEF IInv, ExecuteLocks, Goto, Forget, ThreadTypeOK, TableTypeOK, RoleInv,
     flagVars, threadVars
<1>3. OthersStay(t)
  <2>1. CASE Goto(t, "idle") /\ cur' = Forget(cur, t, 0) /\ UNCHANGED taskLock
    BY <2>1, ThreadFacts, Zenon DEF IInv, ExecuteLocks, Goto, Forget, OthersStay, ThreadTypeOK
  <2>2. CASE /\ state[cur[t]] = "IN_PROGRESS" /\ Goto(t, "write") /\ UNCHANGED cur
             /\ taskLock' = [taskLock EXCEPT ![cur[t]] = t]
    BY <2>2, ThreadFacts, Zenon DEF IInv, ExecuteLocks, Goto, OthersStay, ThreadTypeOK
  <2> QED
    BY <2>1, <2>2, Zenon DEF ExecuteLocks
<1>4. LocksRespected(t)
  <2>1. CASE Goto(t, "idle") /\ cur' = Forget(cur, t, 0) /\ UNCHANGED taskLock
    BY <2>1, ThreadFacts, Zenon DEF IInv, ExecuteLocks, Goto, Forget, LocksRespected, TaskTypeOK,
       taskVars
  <2>2. CASE /\ state[cur[t]] = "IN_PROGRESS" /\ Goto(t, "write") /\ UNCHANGED cur
             /\ taskLock' = [taskLock EXCEPT ![cur[t]] = t]
    BY <2>2, ThreadFacts, Zenon DEF IInv, ExecuteLocks, Goto, LocksRespected, TaskTypeOK, taskVars
  <2> QED
    BY <2>1, <2>2, Zenon DEF ExecuteLocks
<1>5. /\ EntriesRespected(t)
  BY ThreadFacts, Zenon DEF IInv, ExecuteLocks, Goto, Forget, EntriesRespected,
     ThreadTypeOK, taskVars, lockVars, threadVars, historyVars
<1>6. LockOf(t)' /\ StateOf(t)' /\ SendOf(t)'
  <2>1. CASE Goto(t, "idle")
    <3>1. pc'[t] = "idle"
      BY <2>1, Zenon DEF IInv, Goto, ThreadTypeOK
    <3> QED
      BY <3>1, Zenon DEF LockOf, StateOf, SendOf, Holding
  <2>2. CASE /\ state[cur[t]] = "IN_PROGRESS" /\ Goto(t, "write") /\ UNCHANGED cur
             /\ taskLock' = [taskLock EXCEPT ![cur[t]] = t]
    <3>1. cur[t] \in Keys
      BY Zenon DEF IInv, ExecuteLocks, ThreadInv, LockOf
    <3>2. pc'[t] = "write" /\ cur'[t] = cur[t] /\ taskLock'[cur[t]] = t /\ state' = state
      BY <2>2, <3>1, Zenon DEF IInv, ExecuteLocks, Goto, ThreadTypeOK, TaskTypeOK, taskVars
    <3> QED
      BY <2>2, <3>1, <3>2, Zenon DEF LockOf, StateOf, SendOf, Holding
  <2> QED
    BY <2>1, <2>2, Zenon DEF ExecuteLocks
<1>7. ThreadInv'
  BY <1>3, <1>4, <1>5, <1>6, ThreadInvKept, Zenon DEF IInv
<1>8. /\ TableTypeOK' /\ TaskInv' /\ TableInv'
  BY TableTypeOKFrame, TaskInvFrame, TableInvFrame, Zenon DEF IInv, ExecuteLocks, taskVars,
     mapVars, flagVars, tableVars, lockVars, threadVars, historyVars
<1> QED
  BY <1>1, <1>2, <1>7, <1>8, Zenon DEF IInv

LEMMA ExecuteCancelStep ==
  ASSUME IInv, NEW t \in Threads, ExecuteCancel(t)
  PROVE  IInv'
<1>1. TaskInv'
  <2>1. cur[t] \in Keys /\ state[cur[t]] = "IN_PROGRESS"
    BY Zenon DEF IInv, ExecuteCancel, ThreadInv, LockOf, StateOf, Holding
  <2> QED
    BY <2>1, TaskInvMoves, Zenon DEF IInv, ExecuteCancel, BeginCancel, mapVars
<1>2. TaskTypeOK' /\ ThreadTypeOK'
  BY Facts, LabelFacts, ReasonFacts, Zenon DEF IInv, ExecuteCancel, BeginCancel, Goto,
     TaskTypeOK, ThreadTypeOK, taskVars, mapVars, lockVars, threadVars
<1>3. RoleInv'
  BY ThreadFacts, Zenon DEF IInv, ExecuteCancel, Goto, BeginCancel, ThreadTypeOK,
     TableTypeOK, RoleInv, flagVars, threadVars
<1>4. /\ OthersStay(t) /\ LocksRespected(t) /\ EntriesRespected(t)
  BY ThreadFacts, ZenonT(30) DEF IInv, ExecuteCancel, Goto, BeginCancel, OthersStay,
     LocksRespected, EntriesRespected, ThreadTypeOK, ThreadInv, LockOf, Holding,
     TaskTypeOK, taskVars, lockVars, threadVars, historyVars
<1>5. LockOf(t)' /\ StateOf(t)' /\ SendOf(t)'
  BY ThreadFacts DEF IInv, ExecuteCancel, Goto, BeginCancel, LockOf, StateOf, SendOf,
     ThreadInv, Holding, ThreadTypeOK, TaskTypeOK, taskVars, lockVars, threadVars, historyVars
<1>6. ThreadInv'
  BY <1>4, <1>5, ThreadInvKept, Zenon DEF IInv
<1>7. /\ TableTypeOK' /\ TableInv'
  BY TableTypeOKFrame, TableInvFrame, Zenon DEF IInv, ExecuteCancel, flagVars, tableVars,
     lockVars, threadVars, historyVars
<1> QED
  BY <1>1, <1>2, <1>3, <1>6, <1>7, Zenon DEF IInv

LEMMA ExecuteFailsStep ==
  ASSUME IInv, NEW t \in Threads, ExecuteFails(t)
  PROVE  IInv'
<1>1. TaskTypeOK' /\ ThreadTypeOK'
  BY LabelFacts, Zenon DEF IInv, ExecuteFails, Goto, Forget, TaskTypeOK, ThreadTypeOK,
     taskVars, mapVars, lockVars, threadVars
<1>2. RoleInv'
  BY ThreadFacts, Zenon DEF IInv, ExecuteFails, Goto, Forget, ThreadTypeOK, TableTypeOK,
     RoleInv, flagVars, threadVars
<1>3. /\ OthersStay(t) /\ LocksRespected(t) /\ EntriesRespected(t)
      /\ pc'[t] \in Free
  <2>1. OthersStay(t) /\ pc'[t] \in Free
    BY Zenon DEF IInv, ExecuteFails, Goto, Forget, OthersStay, Free, ThreadTypeOK
  <2>2. cur[t] \in Keys /\ taskLock[cur[t]] = t
    BY Zenon DEF IInv, ExecuteFails, ThreadInv, LockOf, Holding
  <2>3. LocksRespected(t)
    BY <2>2, Zenon DEF IInv, ExecuteFails, LocksRespected, TaskTypeOK, taskVars
  <2>4. EntriesRespected(t)
    BY Zenon DEF ExecuteFails, EntriesRespected, historyVars
  <2> QED
    BY <2>1, <2>3, <2>4, Zenon
<1>4. ThreadInv'
  BY <1>3, ThreadInvFreed, Zenon DEF IInv
<1>5. /\ TableTypeOK' /\ TaskInv' /\ TableInv'
  BY TableTypeOKFrame, TaskInvFrame, TableInvFrame, Zenon DEF IInv, ExecuteFails, taskVars,
     mapVars, flagVars, tableVars, lockVars, threadVars, historyVars
<1> QED
  BY <1>1, <1>2, <1>4, <1>5, Zenon DEF IInv

LEMMA ExecutePartialStep ==
  ASSUME IInv, NEW t \in Threads, ExecutePartial(t)
  PROVE  IInv'
<1>1. TaskTypeOK'
  <2>1. cur[t] \in Keys /\ writes[cur[t]] < MaxWrites
    BY Zenon DEF IInv, ExecutePartial, ThreadInv, LockOf, Holding
  <2>2. writes \in [Keys -> 0..MaxWrites]
    BY Zenon DEF IInv, TaskTypeOK
  <2>3. writes[cur[t]] + 1 \in 0..MaxWrites
    BY <2>1, <2>2, BoundsAssumption
  <2>4. writes' \in [Keys -> 0..MaxWrites]
    BY <2>2, <2>3, Zenon DEF IInv, ExecutePartial
  <2> QED
    BY <2>4, Zenon DEF IInv, ExecutePartial, TaskTypeOK, taskVars, mapVars, lockVars
<1>2. ThreadTypeOK'
  BY LabelFacts, Zenon DEF IInv, ExecutePartial, Goto, Forget, ThreadTypeOK, threadVars
<1>3. RoleInv'
  BY ThreadFacts, Zenon DEF IInv, ExecutePartial, Goto, Forget, ThreadTypeOK, TableTypeOK,
     RoleInv, flagVars, threadVars
<1>4. /\ OthersStay(t) /\ LocksRespected(t) /\ EntriesRespected(t)
      /\ pc'[t] \in Free
  BY ThreadFacts, ZenonT(30) DEF IInv, ExecutePartial, Goto, Forget, OthersStay, LocksRespected,
     EntriesRespected, Free, ThreadTypeOK, ThreadInv, LockOf, Holding, TaskTypeOK,
     taskVars, lockVars, threadVars, historyVars
<1>5. ThreadInv'
  BY <1>4, ThreadInvFreed, Zenon DEF IInv
<1>6. /\ TableTypeOK' /\ TaskInv' /\ TableInv'
  BY TableTypeOKFrame, TaskInvFrame, TableInvFrame, Zenon DEF IInv, ExecutePartial, taskVars,
     mapVars, flagVars, tableVars, lockVars, threadVars, historyVars
<1> QED
  BY <1>1, <1>2, <1>3, <1>5, <1>6, Zenon DEF IInv

LEMMA ExecuteCompleteStep ==
  ASSUME IInv, NEW t \in Threads, ExecuteComplete(t)
  PROVE  IInv'
<1>1. TaskInv'
  <2>1. cur[t] \in Keys /\ state[cur[t]] = "IN_PROGRESS"
    BY Zenon DEF IInv, ExecuteComplete, ThreadInv, LockOf, StateOf, Holding
  <2> QED
    BY <2>1, TaskInvMoves, Zenon DEF IInv, ExecuteComplete, mapVars
<1>2. TaskTypeOK' /\ ThreadTypeOK'
  BY Facts, LabelFacts, Zenon DEF IInv, ExecuteComplete, Goto, TaskTypeOK, ThreadTypeOK,
     taskVars, mapVars, lockVars, threadVars
<1>3. RoleInv'
  BY ThreadFacts, Zenon DEF IInv, ExecuteComplete, Goto, ThreadTypeOK, TableTypeOK, RoleInv,
     flagVars, threadVars
<1>4. /\ OthersStay(t) /\ LocksRespected(t) /\ EntriesRespected(t)
  BY ThreadFacts, ZenonT(30) DEF IInv, ExecuteComplete, Goto, OthersStay, LocksRespected,
     EntriesRespected, ThreadTypeOK, ThreadInv, LockOf, Holding, TaskTypeOK, taskVars,
     lockVars, threadVars, historyVars
<1>5. LockOf(t)' /\ StateOf(t)' /\ SendOf(t)'
  BY ThreadFacts DEF IInv, ExecuteComplete, Goto, LockOf, StateOf, SendOf, ThreadInv,
     Holding, ThreadTypeOK, TaskTypeOK, taskVars, lockVars, threadVars, historyVars
<1>6. ThreadInv'
  BY <1>4, <1>5, ThreadInvKept, Zenon DEF IInv
<1>7. /\ TableTypeOK' /\ TableInv'
  BY TableTypeOKFrame, TableInvFrame, Zenon DEF IInv, ExecuteComplete, flagVars, tableVars,
     lockVars, threadVars, historyVars
<1> QED
  BY <1>1, <1>2, <1>3, <1>6, <1>7, Zenon DEF IInv

LEMMA CopyTasksStep ==
  ASSUME IInv, NEW t \in Threads, CopyTasks(t)
  PROVE  IInv'
<1>1. ThreadTypeOK'
  BY LabelFacts, Zenon DEF IInv, CopyTasks, Goto, Forget, OfApp, TaskTypeOK, ThreadTypeOK,
     threadVars
<1>2. RoleInv'
  BY ThreadFacts, Zenon DEF IInv, CopyTasks, Goto, Forget, ThreadTypeOK, TableTypeOK, RoleInv,
     flagVars, threadVars
<1>3. /\ OthersStay(t) /\ LocksRespected(t) /\ EntriesRespected(t)
      /\ pc'[t] \in Free
  BY ThreadFacts, Zenon DEF IInv, CopyTasks, Goto, Forget, OthersStay, LocksRespected,
     EntriesRespected, Free, ThreadTypeOK, taskVars, lockVars, threadVars, historyVars
<1>4. ThreadInv'
  BY <1>3, ThreadInvFreed, Zenon DEF IInv
<1>5. /\ TaskTypeOK' /\ TableTypeOK' /\ TaskInv' /\ TableInv'
  BY TaskTypeOKFrame, TableTypeOKFrame, TaskInvFrame, TableInvFrame, Zenon DEF IInv, CopyTasks,
     taskVars, mapVars, flagVars, tableVars, lockVars, threadVars, historyVars
<1> QED
  BY <1>1, <1>2, <1>4, <1>5, Zenon DEF IInv

(***************************************************************************)
(* What a step may do to the tasks, and to the task the dispatcher has     *)
(* selected.                                                               *)
(***************************************************************************)
Ends(k, outcome) == state' = [state EXCEPT ![k] = outcome] /\ file' = file
TaskMove ==
  \/ UNCHANGED <<state, file>>
  \/ \E t \in Clients, f \in Files, p \in Priorities : CreateHydrateTask(t, f, p)
  \/ FetchDispatched
  \/ \E k \in Keys : state[k] = "IN_PROGRESS" /\ Ends(k, "COMPLETED")
  \/ \E k \in Keys : Outstanding(k) /\ Ends(k, "CANCELLED")

Slotted == {"activate", "lookup", "lock", "send", "sent"}
DispatcherMove ==
  \/ pc'["dispatcher"] \notin Slotted
  \/ pc["dispatcher"] \in Slotted /\ cur'["dispatcher"] = cur["dispatcher"]
  \/ state'[cur'["dispatcher"]] = "CANCELLED"
  \/ DispatchLoopSelects

LEMMA CallMoves ==
  ASSUME IInv, NEW t \in Clients, Call(t)
  PROVE  TaskMove /\ DispatcherMove
<1>1. t # "dispatcher" /\ t \in Threads /\ "dispatcher" \in Threads
  BY ThreadFacts, Zenon
<1>2. ASSUME NEW f \in Files, NEW p \in Priorities, CreateHydrateTask(t, f, p)
      PROVE  TaskMove /\ DispatcherMove
  <2>1. TaskMove
    BY <1>2, Zenon DEF TaskMove
  <2>2. DispatcherMove
    BY <1>1, <1>2, Zenon DEF IInv, ThreadTypeOK, RoleInv, CreateHydrateTask, Goto, DispatcherMove
  <2> QED
    BY <2>1, <2>2, Zenon
<1>3. ASSUME NEW a \in Apps, RegisterCallbackTable(t, a) PROVE TaskMove /\ DispatcherMove
  BY <1>1, <1>3, Zenon DEF IInv, ThreadTypeOK, RegisterCallbackTable, Goto, TaskMove,
     DispatcherMove, taskVars, threadVars
<1>4. ASSUME NEW f \in Files, CancelTask(t, f) PROVE TaskMove /\ DispatcherMove
  BY <1>1, <1>4, Zenon DEF IInv, ThreadTypeOK, CancelTask, Goto, TaskMove, DispatcherMove,
     taskVars, threadVars
<1>5. ASSUME NEW k \in Keys, ExecuteFound(t, k) PROVE TaskMove /\ DispatcherMove
  BY <1>1, <1>5, Zenon DEF IInv, ThreadTypeOK, ExecuteFound, Goto, TaskMove, DispatcherMove,
     taskVars, threadVars
<1>6. ASSUME NEW k \in Keys, ExecuteNotFound(t, k) PROVE TaskMove /\ DispatcherMove
  BY <1>1, <1>6, Zenon DEF IInv, ThreadTypeOK, ExecuteNotFound, Goto, TaskMove, DispatcherMove,
     taskVars, threadVars
<1>7. ASSUME NEW a \in Apps, NEW reason, UnregisterCallbackTable(t, a, reason)
      PROVE  TaskMove /\ DispatcherMove
  BY <1>1, <1>7, Zenon DEF IInv, ThreadTypeOK, UnregisterCallbackTable, Goto, TaskMove,
     DispatcherMove, taskVars, threadVars
<1> QED
  BY <1>2, <1>3, <1>4, <1>5, <1>6, <1>7 DEF Call

LEMMA ServiceMoves ==
  ASSUME IInv, LifecycleCall \/ LifecycleStep \/ MonitorStep \/ Clock
  PROVE  TaskMove /\ DispatcherMove
<1>1. {"dispatcher", "lifecycle", "monitor"} \subseteq Threads
  BY Zenon DEF Threads
<1>2. UNCHANGED <<state, file>>
  BY Zenon DEF LifecycleCall, LifecycleStep, MonitorStep, Clock, ClearAll, StartScheduler,
     StopScheduler, StopSchedulerEnds, ClearCancellationRecords, DeadlineLoopWakes,
     DeadlineLoopEnds, DeadlinePasses, RecordExpires, taskVars
<1>3. cur' = cur
  BY Zenon DEF LifecycleCall, LifecycleStep, MonitorStep, Clock, ClearAll, StartScheduler,
     StopScheduler, StopSchedulerEnds, ClearCancellationRecords, DeadlineLoopWakes,
     DeadlineLoopEnds, DeadlinePasses, RecordExpires, threadVars
<1>4. pc'["dispatcher"] = pc["dispatcher"]
  <2>1. CASE Clock
    BY <2>1, Zenon DEF Clock, DeadlinePasses, RecordExpires, threadVars
  <2>2. CASE LifecycleCall
    BY <1>1, <2>2, Zenon DEF IInv, ThreadTypeOK, LifecycleCall, ClearAll, StartScheduler,
       Goto
  <2>3. CASE LifecycleStep \/ MonitorStep
    BY <1>1, <2>3, Zenon DEF IInv, ThreadTypeOK, LifecycleStep, MonitorStep, StopScheduler,
       StopSchedulerEnds, ClearCancellationRecords, DeadlineLoopWakes, DeadlineLoopEnds, Goto
  <2> QED
    BY <2>1, <2>2, <2>3, Zenon
<1> QED
  BY <1>2, <1>3, <1>4, Zenon DEF TaskMove, DispatcherMove

(* The steps of a thread that leave the tasks alone.                       *)
LEMMA QuietMoves ==
  ASSUME IInv, NEW t \in Threads,
         \/ ScheduleDispatch(t) \/ KeepRecord(t) \/ EraseTask(t) \/ CancelDone(t)
         \/ ExecuteLocks(t) \/ ExecuteFails(t) \/ ExecutePartial(t)
         \/ DispatchBarrier(t) \/ CopyTasks(t)
  PROVE  TaskMove /\ DispatcherMove
<1>1. UNCHANGED <<state, file>>
  BY Zenon DEF ScheduleDispatch, KeepRecord, EraseTask, CancelDone, ExecuteLocks, ExecuteFails,
     ExecutePartial, DispatchBarrier, CopyTasks, taskVars
<1>2. "dispatcher" \in Threads
  BY Zenon DEF Threads
<1>3. CASE ScheduleDispatch(t)
  <2>1. t # "dispatcher" => AfterSchedule(t) \notin Slotted
    BY Zenon DEF AfterSchedule, Slotted
  <2>2. cur' = cur
    BY <1>3, Zenon DEF ScheduleDispatch
  <2>3. pc'["dispatcher"] = pc["dispatcher"] \/ pc'["dispatcher"] = "select"
    BY <1>2, <1>3, Zenon DEF IInv, RoleInv, ThreadTypeOK, ScheduleDispatch
  <2> QED
    BY <1>1, <2>2, <2>3, Zenon DEF TaskMove, DispatcherMove, Slotted
<1>4. CASE KeepRecord(t)
  <2>1. cur' = cur
    BY <1>4, Zenon DEF KeepRecord
  <2>2. t # "dispatcher" => pc'["dispatcher"] = pc["dispatcher"]
    BY <1>2, <1>4, Zenon DEF IInv, ThreadTypeOK, KeepRecord, Goto
  <2>3. t = "dispatcher" => state[cur["dispatcher"]] = "CANCELLED"
    BY <1>4, Zenon DEF IInv, ThreadInv, StateOf, KeepRecord
  <2> QED
    BY <1>1, <2>1, <2>2, <2>3, Zenon DEF TaskMove, DispatcherMove
<1>5. CASE EraseTask(t) \/ CancelDone(t)
  BY <1>1, <1>2, <1>5 DEF IInv, ThreadTypeOK, EraseTask, CancelDone, Goto, Forget,
     TaskMove, DispatcherMove, Slotted
<1>6. CASE ExecuteLocks(t) \/ ExecuteFails(t) \/ ExecutePartial(t)
  <2>1. t # "dispatcher"
    BY <1>6, Zenon DEF IInv, RoleInv, ExecuteLocks, ExecuteFails, ExecutePartial
  <2>2. pc'["dispatcher"] = pc["dispatcher"] /\ cur'["dispatcher"] = cur["dispatcher"]
    BY <1>2, <1>6, <2>1, Zenon DEF IInv, ThreadTypeOK, ExecuteLocks, ExecuteFails, ExecutePartial,
       Goto, Forget
  <2> QED
    BY <1>1, <2>2, Zenon DEF TaskMove, DispatcherMove
<1>7. CASE DispatchBarrier(t) \/ CopyTasks(t)
  BY <1>1, <1>2, <1>7, Zenon DEF IInv, ThreadTypeOK, DispatchBarrier, CopyTasks, Goto, TaskMove,
     DispatcherMove, Slotted
<1> QED
  BY <1>3, <1>4, <1>5, <1>6, <1>7, Zenon

(* The steps of a thread that may end a task, or be on the way to start    *)
(* one.                                                                    *)
LEMMA EndingMoves ==
  ASSUME IInv, NEW t \in Threads,
         \/ CancelNext(t) \/ FindEntry(t) \/ LockEntry(t) \/ SendCallback(t)
         \/ ExecuteCancel(t) \/ ExecuteComplete(t)
  PROVE  TaskMove /\ DispatcherMove
<1>1. "dispatcher" \in Threads
  BY Zenon DEF Threads
<1>2. CASE CancelNext(t)
  <2>1. t # "dispatcher"
    BY <1>2, Zenon DEF IInv, RoleInv, CancelNext
  <2>2. TaskMove
    BY <1>2, Zenon DEF IInv, ThreadTypeOK, CancelNext, StillToCancel, BeginCancel, TaskMove, Ends
  <2>3. pc'["dispatcher"] = pc["dispatcher"] /\ cur'["dispatcher"] = cur["dispatcher"]
    BY <1>1, <1>2, <2>1, Zenon DEF IInv, ThreadTypeOK, CancelNext, BeginCancel, Goto
  <2> QED
    BY <2>2, <2>3, Zenon DEF DispatcherMove
<1>3. CASE ExecuteCancel(t) \/ ExecuteComplete(t)
  <2>1. /\ t # "dispatcher" /\ cur[t] \in Keys /\ state[cur[t]] = "IN_PROGRESS"
    BY <1>3, Zenon DEF IInv, RoleInv, ThreadInv, LockOf, StateOf, Holding, ExecuteCancel,
       ExecuteComplete
  <2>2. TaskMove
    BY <1>3, <2>1, Zenon DEF ExecuteCancel, ExecuteComplete, BeginCancel, TaskMove, Ends,
       Outstanding
  <2>3. pc'["dispatcher"] = pc["dispatcher"] /\ cur'["dispatcher"] = cur["dispatcher"]
    BY <1>1, <1>3, <2>1, Zenon DEF IInv, ThreadTypeOK, ExecuteCancel, ExecuteComplete,
       BeginCancel, Goto
  <2> QED
    BY <2>2, <2>3, Zenon DEF DispatcherMove
<1>4. CASE FindEntry(t) \/ LockEntry(t) \/ SendCallback(t)
  <2>1. file' = file /\ cur' = cur /\ pc[t] \in {"lookup", "lock", "send"}
    BY <1>4, Zenon DEF FindEntry, LockEntry, SendCallback
  <2>2. DispatchFails(t) \/ UNCHANGED state
    BY <1>4, Zenon DEF FindEntry, LockEntry, SendCallback
  <2>3. cur[t] \in Keys
    BY <2>1, Zenon DEF IInv, ThreadInv, LockOf, Holding
  <2>4. TaskMove
    BY <2>1, <2>2, <2>3, Zenon DEF DispatchFails, BeginCancel, Fetching, Outstanding,
       TaskMove, Ends
  <2>5. t # "dispatcher" => pc'["dispatcher"] = pc["dispatcher"]
    BY <1>1, <1>4, Zenon DEF IInv, ThreadTypeOK, FindEntry, LockEntry, SendCallback,
       DispatchFails, BeginCancel, Goto
  <2> QED
    BY <2>1, <2>4, <2>5, Zenon DEF DispatcherMove, Slotted
<1> QED
  BY <1>2, <1>3, <1>4, Zenon

LEMMA DispatcherMoves ==
  ASSUME IInv, DispatcherStep
  PROVE  TaskMove /\ DispatcherMove
<1>1. "dispatcher" \in Threads
  BY Zenon DEF Threads
<1>2. CASE DispatchLoopEnds \/ DispatchLoopSelects
  BY <1>1, <1>2, Zenon DEF IInv, ThreadTypeOK, DispatchLoopEnds, DispatchLoopSelects, Goto,
     taskVars, TaskMove, DispatcherMove, Slotted
<1>3. CASE ActivateTask
  <2>1. cur["dispatcher"] \in Keys /\ pc["dispatcher"] = "activate"
    BY <1>1, <1>3, Zenon DEF IInv, ThreadInv, LockOf, ActivateTask
  <2>2. TaskMove
    BY <1>3, <2>1, Zenon DEF ActivateTask, BeginCancel, Outstanding, TaskMove, Ends
  <2>3. \/ pc'["dispatcher"] = "select"
        \/ cur' = cur
    BY <1>1, <1>3, Zenon DEF IInv, ThreadTypeOK, ActivateTask, Goto
  <2> QED
    BY <2>1, <2>2, <2>3, Zenon DEF DispatcherMove, Slotted
<1>4. CASE FetchDispatched
  BY <1>1, <1>4, Zenon DEF IInv, ThreadTypeOK, FetchDispatched, Goto, TaskMove, DispatcherMove,
     Slotted
<1> QED
  BY <1>2, <1>3, <1>4, Zenon DEF DispatcherStep

LEMMA NextMoves ==
  ASSUME IInv, [Next]_vars
  PROVE  TaskMove /\ DispatcherMove
<1>1. CASE UNCHANGED vars
  BY <1>1, Zenon DEF vars, taskVars, threadVars, TaskMove, DispatcherMove
<1>2. CASE \E t \in Threads : ThreadStep(t)
  BY <1>2, QuietMoves, EndingMoves, Zenon DEF ThreadStep
<1> QED
  BY <1>1, <1>2, CallMoves, ServiceMoves, DispatcherMoves, Zenon DEF Next

Active == {k \in Keys : state[k] = "IN_PROGRESS"}

(* A task that exists stays, ends, or is started by FetchDispatched.       *)
LEMMA StatesMove ==
  ASSUME IInv, TaskMove, ~FetchDispatched, NEW k \in Keys, state[k] # "ABSENT"
  PROVE  /\ state'[k] = state[k] \/ state'[k] \in {"CANCELLED", "COMPLETED"}
         /\ state[k] \in {"CANCELLED", "COMPLETED"} => state'[k] = state[k]
<1>1. CASE \E t \in Clients, f \in Files, p \in Priorities : CreateHydrateTask(t, f, p)
  <2>1. state' = [state EXCEPT ![nextKey] = "PENDING"] /\ nextKey \in Keys
    BY <1>1, KeyFacts, Zenon DEF IInv, TaskTypeOK, CreateHydrateTask
  <2>2. nextKey <= nextKey
    BY DEF IInv, TaskTypeOK
  <2>3. state[nextKey] = "ABSENT"
    BY <2>1, <2>2, Zenon DEF IInv, TaskInv
  <2> QED
    BY <2>1, <2>3, Zenon DEF IInv, TaskTypeOK
<1>2. CASE \E l \in Keys : Outstanding(l) /\ (Ends(l, "COMPLETED") \/ Ends(l, "CANCELLED"))
  BY <1>2, Zenon DEF IInv, TaskTypeOK, Ends, Outstanding
<1> QED
  BY <1>1, <1>2, Zenon DEF TaskMove, Outstanding

(* Every step but FetchDispatched leaves the active tasks alone or takes   *)
(* some away.                                                              *)
LEMMA ActiveShrinks ==
  ASSUME IInv, TaskMove, ~FetchDispatched
  PROVE  /\ Active' \subseteq Active
         /\ \A k \in Keys : state[k] # "ABSENT" => file'[k] = file[k]
<1>1. CASE \E t \in Clients, f \in Files, p \in Priorities : CreateHydrateTask(t, f, p)
  <2>1. PICK t \in Clients, f \in Files, p \in Priorities : CreateHydrateTask(t, f, p)
    BY <1>1, Zenon
  <2>2. /\ nextKey \in Keys /\ nextKey <= nextKey
        /\ state' = [state EXCEPT ![nextKey] = "PENDING"]
        /\ file' = [file EXCEPT ![nextKey] = f]
    BY <2>1, KeyFacts DEF IInv, TaskTypeOK, CreateHydrateTask
  <2>3. state[nextKey] = "ABSENT"
    BY <2>2, Zenon DEF IInv, TaskInv
  <2> QED
    BY <2>2, <2>3, Zenon DEF IInv, TaskTypeOK, Active
<1>2. CASE UNCHANGED <<state, file>>
  BY <1>2, Zenon DEF Active
<1>3. CASE \E k \in Keys : Ends(k, "COMPLETED") \/ Ends(k, "CANCELLED")
  BY <1>3, Zenon DEF IInv, TaskTypeOK, Active, Ends
<1> QED
  BY <1>1, <1>2, <1>3, Zenon DEF TaskMove

(***************************************************************************)
(* What the loops that cancel tasks, and the threads in them, rely on.     *)
(***************************************************************************)
(* The mutex of a task is held by a thread whose label says so, the task   *)
(* it works on stays in taskMap_, and a task that has ended but is still   *)
(* in taskMap_ is in the hands of the thread that will erase it.           *)
HoldInv ==
  /\ \A t \in Threads, k \in Keys : taskLock[k] = t => cur[t] = k /\ pc[t] \in Holding
  /\ \A t \in Threads : pc[t] \in Holding => cur[t] \in taskMap
  /\ \A k \in taskMap : ~Outstanding(k) => taskLock[k] # NoThread

(* Only a task that has been started has, or had, an idle deadline.        *)
DeadlineInv ==
  \A k \in Keys : deadline[k] # "none" => state[k] \notin {"ABSENT", "PENDING"}

(* A thread with tasks left to cancel is in the loop that cancels them;    *)
(* the monitor, and no other thread, cancels because of a timeout.         *)
Loop == {"next", "record", "lookup", "lock", "send", "erase"}
LoopInv ==
  /\ \A t \in Threads : todo[t] # {} => pc[t] \in Loop
  /\ todo["dispatcher"] = {}
  /\ \A t \in Threads \ {"monitor"} : why[t] # "TIMEOUT"
  /\ pc["monitor"] \in Loop => why["monitor"] = "TIMEOUT"
  /\ pc["monitor"] \in Loop \cup {"idle", "wait", "schedule"}
  /\ pc["lifecycle"] \notin {"execute", "write"}

LEMMA LoopInvKept ==
  ASSUME IInv, LoopInv, [Next]_vars
  PROVE  LoopInv'
<1>1. CASE UNCHANGED vars
  BY <1>1, Zenon DEF vars, threadVars, LoopInv
<1>2. ASSUME NEW t \in Clients, Call(t) PROVE LoopInv'
  <2>1. ASSUME NEW f \in Files, NEW p \in Priorities, CreateHydrateTask(t, f, p) PROVE
     LoopInv'
    BY <2>1, ThreadFacts, Zenon DEF CreateHydrateTask, Goto, PurgeExpiredCancellationRecords,
       RecordsAre, IInv, ThreadTypeOK, RoleInv, LoopInv, Loop
  <2>2. ASSUME NEW f \in Files, CancelTask(t, f) PROVE LoopInv'
    BY <2>2, ThreadFacts, Zenon DEF CancelTask, Goto, IInv, ThreadTypeOK, RoleInv, LoopInv, Loop
  <2>3. ASSUME NEW k \in Keys, ExecuteFound(t, k) PROVE LoopInv'
    BY <2>3, ThreadFacts, Zenon DEF ExecuteFound, Goto, IInv, ThreadTypeOK, RoleInv, LoopInv, Loop
  <2>4. ASSUME NEW a \in Apps, NEW r \in {"UNREGISTER", "CALLBACK_DIED"},
     UnregisterCallbackTable(t, a, r) PROVE LoopInv'
    BY <2>4, ThreadFacts, Zenon DEF UnregisterCallbackTable, Goto, IInv, ThreadTypeOK, RoleInv,
       LoopInv, Loop
  <2>5. ASSUME NEW a \in Apps, RegisterCallbackTable(t, a) PROVE LoopInv'
    BY <2>5, Zenon DEF RegisterCallbackTable, threadVars, LoopInv
  <2>6. ASSUME NEW k \in Keys, ExecuteNotFound(t, k) PROVE LoopInv'
    BY <2>6, Zenon DEF ExecuteNotFound, PurgeExpiredCancellationRecords, RecordsAre, threadVars,
       LoopInv
  <2> QED
    BY <1>2, <2>1, <2>2, <2>3, <2>4, <2>5, <2>6, Zenon DEF Call
<1>3. ASSUME NEW t \in Threads, ThreadStep(t) PROVE LoopInv'
  <2>1. CASE ScheduleDispatch(t)
    BY <2>1, ThreadFacts DEF ScheduleDispatch, AfterSchedule, IInv, ThreadTypeOK, RoleInv,
       LoopInv, Loop
  <2>2. CASE KeepRecord(t)
    BY <2>2, ThreadFacts, Zenon DEF KeepRecord, Goto, IInv, ThreadTypeOK, RoleInv, LoopInv, Loop
  <2>3. CASE EraseTask(t)
    BY <2>3, ThreadFacts, Zenon DEF EraseTask, Goto, Forget, IInv, ThreadTypeOK, RoleInv, LoopInv,
       Loop
  <2>4. CASE CancelNext(t)
    BY <2>4, ThreadFacts DEF CancelNext, StillToCancel, BeginCancel, Goto, IInv,
       ThreadTypeOK, RoleInv, LoopInv, Loop
  <2>5. CASE CancelDone(t)
    BY <2>5, ThreadFacts, Zenon DEF CancelDone, Goto, Forget, IInv, ThreadTypeOK, RoleInv, LoopInv,
       Loop
  <2>6. CASE FindEntry(t)
    BY <2>6, ThreadFacts DEF FindEntry, DispatchFails, Fetching, BeginCancel, Goto,
       Forget, IInv, ThreadTypeOK, RoleInv, ThreadInv, StateOf, LoopInv, Loop
  <2>7. CASE LockEntry(t)
    BY <2>7, ThreadFacts DEF LockEntry, DispatchFails, Fetching, BeginCancel, Goto,
       Forget, IInv, ThreadTypeOK, RoleInv, ThreadInv, StateOf, LoopInv, Loop
  <2>8. CASE SendCallback(t)
    BY <2>8, ThreadFacts DEF SendCallback, DispatchFails, Fetching, BeginCancel, Goto,
       Forget, IInv, ThreadTypeOK, RoleInv, ThreadInv, StateOf, LoopInv, Loop
  <2>9. CASE ExecuteLocks(t)
    BY <2>9, ThreadFacts DEF ExecuteLocks, Goto, Forget, IInv, ThreadTypeOK, RoleInv,
       LoopInv, Loop
  <2>10. CASE ExecuteCancel(t)
    BY <2>10, ThreadFacts, Zenon DEF ExecuteCancel, BeginCancel, Goto, IInv, ThreadTypeOK, RoleInv,
       LoopInv, Loop
  <2>11. CASE ExecuteFails(t)
    BY <2>11, ThreadFacts, Zenon DEF ExecuteFails, Goto, Forget, IInv, ThreadTypeOK, RoleInv,
       LoopInv, Loop
  <2>12. CASE ExecutePartial(t)
    BY <2>12, ThreadFacts, Zenon DEF ExecutePartial, Goto, Forget, IInv, ThreadTypeOK, RoleInv,
       LoopInv, Loop
  <2>13. CASE ExecuteComplete(t)
    BY <2>13, ThreadFacts, Zenon DEF ExecuteComplete, Goto, IInv, ThreadTypeOK, RoleInv, LoopInv,
       Loop
  <2>14. CASE CopyTasks(t)
    BY <2>14, ThreadFacts, Zenon DEF CopyTasks, OfApp, Goto, Forget, IInv, ThreadTypeOK, RoleInv,
       LoopInv, Loop
  <2>15. CASE DispatchBarrier(t)
    BY <2>15, Zenon DEF DispatchBarrier, LoopInv
  <2> QED
    BY <1>3, <2>1, <2>2, <2>3, <2>4, <2>5, <2>6, <2>7, <2>8, <2>9, <2>10, <2>11, <2>12,
       <2>13, <2>14, <2>15, Zenon DEF ThreadStep
<1>4. CASE DispatcherStep
  <2>1. CASE DispatchLoopEnds
    BY <2>1, ThreadFacts, Zenon DEF DispatchLoopEnds, Goto, Forget, IInv, ThreadTypeOK, RoleInv,
       LoopInv, Loop
  <2>2. CASE DispatchLoopSelects
    BY <2>2, ThreadFacts, Zenon DEF DispatchLoopSelects, Goto, IInv, ThreadTypeOK, RoleInv,
       LoopInv, Loop
  <2>3. CASE ActivateTask
    BY <2>3, ThreadFacts DEF ActivateTask, Goto, Forget, BeginCancel, IInv, ThreadTypeOK,
       RoleInv, LoopInv, Loop
  <2>4. CASE FetchDispatched
    BY <2>4, ThreadFacts, Zenon DEF FetchDispatched, Goto, Forget, IInv, ThreadTypeOK, RoleInv,
       LoopInv, Loop
  <2> QED
    BY <1>4, <2>1, <2>2, <2>3, <2>4, Zenon DEF DispatcherStep
<1>5. CASE MonitorStep
  <2>1. CASE DeadlineLoopWakes
    BY <2>1, ThreadFacts, Zenon DEF DeadlineLoopWakes, Goto, IInv, ThreadTypeOK, RoleInv, LoopInv,
       Loop
  <2>2. CASE DeadlineLoopEnds
    BY <2>2, ThreadFacts, Zenon DEF DeadlineLoopEnds, Goto, IInv, ThreadTypeOK, RoleInv, LoopInv,
       Loop
  <2> QED
    BY <1>5, <2>1, <2>2, Zenon DEF MonitorStep
<1>6. CASE LifecycleCall
  <2>1. ASSUME NEW r \in {"SERVICE_STOP", "USER_SWITCH"}, ClearAll(r) PROVE LoopInv'
    BY <2>1, ThreadFacts, Zenon DEF ClearAll, Goto, IInv, ThreadTypeOK, RoleInv, LoopInv, Loop
  <2>2. CASE StartScheduler
    BY <2>2, ThreadFacts, Zenon DEF StartScheduler, IInv, ThreadTypeOK, RoleInv, LoopInv, Loop
  <2> QED
    BY <1>6, <2>1, <2>2, Zenon DEF LifecycleCall
<1>7. CASE LifecycleStep
  <2>1. CASE StopScheduler
    BY <2>1, ThreadFacts, Zenon DEF StopScheduler, Goto, IInv, ThreadTypeOK, RoleInv, LoopInv, Loop
  <2>2. CASE StopSchedulerEnds
    BY <2>2, ThreadFacts, Zenon DEF StopSchedulerEnds, Goto, Forget, ClearedRecords, RecordsAre,
       IInv, ThreadTypeOK, RoleInv, LoopInv, Loop
  <2>3. CASE ClearCancellationRecords
    BY <2>3, ThreadFacts, Zenon DEF ClearCancellationRecords, Goto, Forget, ClearedRecords,
       RecordsAre, IInv, ThreadTypeOK, RoleInv, LoopInv, Loop
  <2> QED
    BY <1>7, <2>1, <2>2, <2>3, Zenon DEF LifecycleStep
<1>8. CASE Clock
  <2>1. ASSUME NEW k \in Keys, DeadlinePasses(k) PROVE LoopInv'
    BY <2>1, Zenon DEF DeadlinePasses, threadVars, LoopInv
  <2>2. CASE RecordExpires
    BY <2>2, Zenon DEF RecordExpires, threadVars, LoopInv
  <2> QED
    BY <1>8, <2>1, <2>2, Zenon DEF Clock
<1> QED
  BY <1>1, <1>2, <1>3, <1>4, <1>5, <1>6, <1>7, <1>8, Zenon DEF Next

(* A step that leaves the mutexes of the tasks alone, takes one, or gives  *)
(* one up.                                                                 *)
LEMMA MutexesStay ==
  ASSUME IInv, HoldInv, UNCHANGED <<taskLock, taskMap>>,
         \A t \in Threads : /\ pc'[t] \in Holding <=> pc[t] \in Holding
                            /\ pc[t] \in Holding => cur'[t] = cur[t],
         \A k \in Keys : Outstanding(k) /\ taskLock[k] = NoThread => Outstanding(k)'
  PROVE  HoldInv'
<1>1. \A t \in Threads, k \in Keys : taskLock'[k] = t => cur'[t] = k /\ pc'[t] \in Holding
  BY Zenon DEF HoldInv
<1>2. \A t \in Threads : pc'[t] \in Holding => cur'[t] \in taskMap'
  BY Zenon DEF HoldInv
<1>3. \A k \in taskMap' : ~Outstanding(k)' => taskLock'[k] # NoThread
  BY Zenon DEF HoldInv, IInv, TaskTypeOK
<1> QED
  BY <1>1, <1>2, <1>3, Zenon DEF HoldInv

LEMMA MutexTaken ==
  ASSUME IInv, HoldInv, NEW t \in Threads, NEW k \in taskMap, taskLock[k] = NoThread,
         pc[t] \notin Holding, pc'[t] \in Holding, cur'[t] = k, OthersStay(t),
         taskLock' = [taskLock EXCEPT ![k] = t], taskMap' = taskMap,
         \A j \in Keys \ {k} : state'[j] = state[j]
  PROVE  HoldInv'
<1>1. k \in Keys /\ t # NoThread
  BY ThreadFacts, Zenon DEF IInv, TaskTypeOK
<1>2. ASSUME NEW u \in Threads, NEW j \in Keys, taskLock'[j] = u
      PROVE  cur'[u] = j /\ pc'[u] \in Holding
  BY <1>1, <1>2 DEF HoldInv, OthersStay, IInv, TaskTypeOK
<1>3. \A u \in Threads : pc'[u] \in Holding => cur'[u] \in taskMap'
  BY Zenon DEF HoldInv, OthersStay
<1>4. \A j \in taskMap' : ~Outstanding(j)' => taskLock'[j] # NoThread
  BY <1>1 DEF HoldInv, IInv, TaskTypeOK, Outstanding
<1> QED
  BY <1>2, <1>3, <1>4, Zenon DEF HoldInv

LEMMA MutexFreed ==
  ASSUME IInv, HoldInv, NEW t \in Threads, pc[t] \in Holding, pc'[t] \notin Holding,
         OthersStay(t), taskLock' = [taskLock EXCEPT ![cur[t]] = NoThread],
         \/ taskMap' = taskMap \ {cur[t]}
         \/ taskMap' = taskMap /\ state'[cur[t]] = "IN_PROGRESS",
         \A j \in Keys \ {cur[t]} : state'[j] = state[j]
  PROVE  HoldInv'
<1>1. cur[t] \in Keys /\ taskLock[cur[t]] = t /\ NoThread \notin Threads
  BY ThreadFacts, Zenon DEF IInv, ThreadInv, LockOf
<1>2. ASSUME NEW u \in Threads, NEW j \in Keys, taskLock'[j] = u
      PROVE  cur'[u] = j /\ pc'[u] \in Holding
  <2>1. taskLock[j] = u /\ j # cur[t]
    BY <1>1, <1>2, Zenon DEF IInv, TaskTypeOK
  <2>2. u # t
    BY <2>1, Zenon DEF HoldInv
  <2> QED
    BY <2>1, <2>2, Zenon DEF HoldInv, OthersStay
<1>3. ASSUME NEW u \in Threads, pc'[u] \in Holding PROVE cur'[u] \in taskMap'
  <2>1. u # t /\ cur'[u] = cur[u] /\ pc[u] \in Holding
    BY <1>3, Zenon DEF OthersStay
  <2>2. cur[u] \in taskMap /\ taskLock[cur[u]] = u
    BY <2>1, Zenon DEF HoldInv, IInv, ThreadInv, LockOf
  <2> QED
    BY <1>1, <2>1, <2>2
<1>4. ASSUME NEW j \in taskMap', ~Outstanding(j)' PROVE taskLock'[j] # NoThread
  <2>1. j \in taskMap /\ j \in Keys /\ j # cur[t]
    BY <1>4, Zenon DEF IInv, TaskTypeOK, Outstanding
  <2>2. ~Outstanding(j)
    BY <1>4, <2>1, Zenon DEF Outstanding
  <2>3. taskLock'[j] = taskLock[j]
    BY <2>1, Zenon DEF IInv, TaskTypeOK
  <2> QED
    BY <2>1, <2>2, <2>3, Zenon DEF HoldInv
<1> QED
  BY <1>2, <1>3, <1>4, Zenon DEF HoldInv

(* A thread without a mutex moves on without one; a thread with one moves  *)
(* on with it.                                                             *)
LEMMA OutsideStays ==
  ASSUME IInv, HoldInv, NEW t \in Threads, NEW l, pc[t] \notin Holding, l \notin Holding,
         Goto(t, l), \A u \in Threads \ {t} : cur'[u] = cur[u],
         UNCHANGED <<taskLock, taskMap, state>>
  PROVE  HoldInv'
<1>1. \A u \in Threads : /\ pc'[u] \in Holding <=> pc[u] \in Holding
                         /\ pc[u] \in Holding => cur'[u] = cur[u]
  BY Zenon DEF IInv, ThreadTypeOK, Goto
<1> QED
  BY <1>1, MutexesStay, Zenon DEF Outstanding

LEMMA HolderStays ==
  ASSUME IInv, HoldInv, NEW t \in Threads, NEW l \in Holding, pc[t] \in Holding, Goto(t, l),
         UNCHANGED <<taskLock, taskMap, cur>>,
         \A k \in Keys \ {cur[t]} : state'[k] = state[k]
  PROVE  HoldInv'
<1>1. cur[t] \in Keys /\ taskLock[cur[t]] = t /\ NoThread \notin Threads
  BY ThreadFacts, Zenon DEF IInv, ThreadInv, LockOf
<1>2. \A u \in Threads : pc'[u] \in Holding <=> pc[u] \in Holding
  BY Zenon DEF IInv, ThreadTypeOK, Goto
<1>3. ASSUME NEW k \in Keys, Outstanding(k), taskLock[k] = NoThread PROVE Outstanding(k)'
  <2>1. k # cur[t]
    BY <1>1, <1>3, Zenon
  <2> QED
    BY <1>3, <2>1, Zenon DEF Outstanding
<1> QED
  BY <1>2, <1>3, MutexesStay, Zenon

LEMMA DispatchStays ==
  ASSUME IInv, HoldInv, NEW t \in Threads, pc[t] \in {"lookup", "lock", "send"}, cur' = cur,
         taskLock' = taskLock, taskMap' = taskMap,
         DispatchFails(t) \/ (\E l \in Holding : Goto(t, l) /\ state' = state)
  PROVE  HoldInv'
<1>1. cur[t] \in Keys /\ taskLock[cur[t]] = t /\ NoThread \notin Threads
  BY ThreadFacts, Zenon DEF IInv, ThreadInv, LockOf, Holding
<1>2. CASE DispatchFails(t)
  <2>1. /\ state' = [state EXCEPT ![cur[t]] = "CANCELLED"]
        /\ \/ pc' = [pc EXCEPT ![t] = "record"]
           \/ pc' = [pc EXCEPT ![t] = "erase"]
    BY <1>2, DispatchFailsEffect, Zenon DEF IInv
  <2>2. \A u \in Threads : pc'[u] \in Holding <=> pc[u] \in Holding
    BY <2>1, Zenon DEF IInv, ThreadTypeOK, Holding
  <2>3. \A k \in Keys : Outstanding(k) /\ taskLock[k] = NoThread => Outstanding(k)'
    BY <1>1, <2>1 DEF IInv, TaskTypeOK, Outstanding
  <2> QED
    BY <2>2, <2>3, MutexesStay, Zenon
<1>3. CASE \E l \in Holding : Goto(t, l) /\ state' = state
  <2>1. \A u \in Threads : pc'[u] \in Holding <=> pc[u] \in Holding
    BY <1>3, Zenon DEF IInv, ThreadTypeOK, Holding, Goto
  <2> QED
    BY <1>3, <2>1, MutexesStay, Zenon DEF Outstanding
<1> QED
  BY <1>2, <1>3, Zenon

LEMMA HoldInvKept ==
  ASSUME IInv, HoldInv, [Next]_vars
  PROVE  HoldInv'
<1>1. CASE UNCHANGED vars
  BY <1>1, Zenon DEF vars, taskVars, mapVars, lockVars, threadVars, HoldInv, Outstanding
<1>2. ASSUME NEW t \in Clients, Call(t) PROVE HoldInv'
  <2>1. ASSUME NEW f \in Files, NEW p \in Priorities, CreateHydrateTask(t, f, p) PROVE
     HoldInv'
    <3>1. /\ nextKey \in Keys /\ state[nextKey] = "ABSENT" /\ t \in Threads
      BY <1>2, <2>1, FreshKey, ThreadFacts, Zenon DEF IInv, CreateHydrateTask
    <3>2. /\ taskLock' = taskLock /\ cur' = cur /\ taskMap' = taskMap \cup {nextKey}
          /\ pc' = [pc EXCEPT ![t] = "created"] /\ pc[t] = "idle"
          /\ state' = [state EXCEPT ![nextKey] = "PENDING"]
      BY <2>1, Zenon DEF CreateHydrateTask, Goto, lockVars
    <3>3. \A u \in Threads : pc'[u] \in Holding <=> pc[u] \in Holding
      BY <3>1, <3>2, Zenon DEF IInv, ThreadTypeOK, Holding
    <3>4. \A j \in taskMap' : ~Outstanding(j)' => taskLock'[j] # NoThread
      BY <3>1, <3>2 DEF HoldInv, IInv, TaskTypeOK, Outstanding
    <3> QED
      BY <3>2, <3>3, <3>4, Zenon DEF HoldInv
  <2>2. ASSUME NEW f \in Files, CancelTask(t, f) PROVE HoldInv'
    <3>1. /\ pc[t] \notin Holding /\ Goto(t, "next") /\ "next" \notin Holding
          /\ \A u \in Threads \ {t} : cur'[u] = cur[u]
          /\ UNCHANGED <<taskLock, taskMap, state>>
      BY <2>2, ThreadFacts, Zenon DEF CancelTask, Holding, taskVars, mapVars, lockVars
    <3> QED
      BY <1>2, <3>1, ThreadFacts, OutsideStays, Zenon
  <2>3. ASSUME NEW k \in Keys, ExecuteFound(t, k) PROVE HoldInv'
    <3>1. /\ pc[t] \notin Holding /\ Goto(t, "execute") /\ "execute" \notin Holding
          /\ \A u \in Threads \ {t} : cur'[u] = cur[u]
          /\ UNCHANGED <<taskLock, taskMap, state>>
      BY <2>3, ThreadFacts, Zenon DEF ExecuteFound, Holding, taskVars, mapVars, lockVars,
         IInv, ThreadTypeOK
    <3> QED
      BY <1>2, <3>1, ThreadFacts, OutsideStays, Zenon
  <2>4. ASSUME NEW a \in Apps, NEW r \in {"UNREGISTER", "CALLBACK_DIED"},
     UnregisterCallbackTable(t, a, r) PROVE HoldInv'
    <3>1. /\ pc[t] \notin Holding /\ Goto(t, "barrier") /\ "barrier" \notin Holding
          /\ \A u \in Threads \ {t} : cur'[u] = cur[u]
          /\ UNCHANGED <<taskLock, taskMap, state>>
      BY <2>4, ThreadFacts, Zenon DEF UnregisterCallbackTable, Holding, taskVars, mapVars, lockVars
    <3> QED
      BY <1>2, <3>1, ThreadFacts, OutsideStays, Zenon
  <2>5. ASSUME NEW a \in Apps, RegisterCallbackTable(t, a) PROVE HoldInv'
    BY <2>5, Zenon DEF RegisterCallbackTable, taskVars, mapVars, lockVars, threadVars, HoldInv,
       Outstanding
  <2>6. ASSUME NEW k \in Keys, ExecuteNotFound(t, k) PROVE HoldInv'
    BY <2>6, Zenon DEF ExecuteNotFound, PurgeExpiredCancellationRecords, RecordsAre, taskVars,
       lockVars, threadVars, HoldInv, Outstanding
  <2> QED
    BY <1>2, <2>1, <2>2, <2>3, <2>4, <2>5, <2>6, Zenon DEF Call
<1>3. ASSUME NEW t \in Threads, ThreadStep(t) PROVE HoldInv'
  <2>1. CASE ScheduleDispatch(t)
    <3>1. \A u \in Threads : /\ pc'[u] \in Holding <=> pc[u] \in Holding
                             /\ pc[u] \in Holding => cur'[u] = cur[u]
      BY <2>1, ThreadFacts DEF ScheduleDispatch, AfterSchedule, RoleInv, taskVars, mapVars,
         lockVars, IInv, ThreadTypeOK, Holding
    <3>2. UNCHANGED <<taskLock, taskMap, state>>
      BY <2>1, Zenon DEF ScheduleDispatch, AfterSchedule, RoleInv, taskVars, mapVars, lockVars
    <3>3. \A k \in Keys : Outstanding(k) => Outstanding(k)'
      BY <3>2, Zenon DEF Outstanding
    <3> QED
      BY <3>1, <3>2, <3>3, MutexesStay, Zenon
  <2>2. CASE KeepRecord(t)
    <3>1. /\ pc[t] \in Holding /\ UNCHANGED <<taskLock, taskMap, state, cur>>
          /\ Goto(t, "lookup") \/ Goto(t, "erase")
      BY <2>2, Zenon DEF KeepRecord, Holding, taskVars, lockVars
    <3>2. "lookup" \in Holding /\ "erase" \in Holding
      BY Zenon DEF Holding
    <3> QED
      BY <1>3, <3>1, <3>2, HolderStays, Zenon
  <2>3. CASE EraseTask(t)
    <3>1. /\ pc[t] \in Holding /\ taskLock' = [taskLock EXCEPT ![cur[t]] = NoThread]
          /\ taskMap' = taskMap \ {cur[t]} /\ state' = state /\ entry' = entry
          /\ cur' = [cur EXCEPT ![t] = 0]
          /\ pc' = [pc EXCEPT ![t] = "select"] \/ pc' = [pc EXCEPT ![t] = "next"]
      BY <2>3, Zenon DEF EraseTask, Goto, Forget, Holding, taskVars
    <3>2. OthersStay(t) /\ pc'[t] \notin Holding
      BY <1>3, <3>1, Zenon DEF OthersStay, IInv, ThreadTypeOK, Holding
    <3> QED
      BY <1>3, <3>1, <3>2, MutexFreed, Zenon
  <2>4. CASE CancelNext(t)
    <3>1. PICK k \in todo[t] :
            /\ taskLock[k] = NoThread
            /\ \/ /\ Outstanding(k)
                  /\ taskLock' = [taskLock EXCEPT ![k] = t]
                  /\ cur' = [cur EXCEPT ![t] = k]
                  /\ state' = [state EXCEPT ![k] = "CANCELLED"]
                  /\ pc' = [pc EXCEPT ![t] = "record"]
               \/ UNCHANGED <<state, taskLock, cur, pc>>
      BY <2>4, Zenon DEF CancelNext, StillToCancel, BeginCancel, Goto
    <3>2. k \in Keys /\ taskMap' = taskMap /\ entry' = entry /\ pc[t] = "next"
      BY <2>4, Zenon DEF CancelNext, IInv, ThreadTypeOK, mapVars
    <3>3. CASE UNCHANGED <<state, taskLock, cur, pc>>
      BY <3>2, <3>3, MutexesStay, Zenon DEF Outstanding
    <3>4. CASE ~UNCHANGED <<state, taskLock, cur, pc>>
      <4>1. k \in taskMap
        BY <3>1, <3>2, <3>4, Zenon DEF IInv, TaskInv
      <4>2. OthersStay(t) /\ cur'[t] = k /\ pc'[t] \in Holding /\ pc[t] \notin Holding
        BY <3>1, <3>2, <3>4, Zenon DEF OthersStay, IInv, ThreadTypeOK, Holding
      <4>3. \A j \in Keys \ {k} : state'[j] = state[j]
        BY <3>1, <3>4, Zenon DEF IInv, TaskTypeOK
      <4> QED
        BY <3>1, <3>2, <3>4, <4>1, <4>2, <4>3, MutexTaken, Zenon
    <3> QED
      BY <3>3, <3>4, Zenon
  <2>5. CASE CancelDone(t)
    <3>1. /\ pc[t] \notin Holding /\ UNCHANGED <<taskLock, taskMap, state, cur>>
          /\ Goto(t, "drain") \/ Goto(t, "schedule")
      BY <2>5, Zenon DEF CancelDone, Holding, taskVars, mapVars, lockVars
    <3>2. "drain" \notin Holding /\ "schedule" \notin Holding
      BY Zenon DEF Holding
    <3> QED
      BY <1>3, <3>1, <3>2, OutsideStays, Zenon
  <2>6. CASE FindEntry(t)
    <3>1. /\ pc[t] \in {"lookup", "lock", "send"} /\ cur' = cur
          /\ taskLock' = taskLock /\ taskMap' = taskMap
          /\ DispatchFails(t) \/ (\E l \in Holding : Goto(t, l) /\ state' = state)
      BY <2>6, Zenon DEF FindEntry, lockVars, mapVars, Holding
    <3> QED
      BY <3>1, DispatchStays, Zenon
  <2>7. CASE LockEntry(t)
    <3>1. /\ pc[t] \in {"lookup", "lock", "send"} /\ cur' = cur
          /\ taskLock' = taskLock /\ taskMap' = taskMap
          /\ DispatchFails(t) \/ (\E l \in Holding : Goto(t, l) /\ state' = state)
      BY <2>7, Zenon DEF LockEntry, lockVars, mapVars, Holding
    <3> QED
      BY <3>1, DispatchStays, Zenon
  <2>8. CASE SendCallback(t)
    <3>1. /\ pc[t] \in {"lookup", "lock", "send"} /\ cur' = cur
          /\ taskLock' = taskLock /\ taskMap' = taskMap
          /\ DispatchFails(t) \/ (\E l \in Holding : Goto(t, l) /\ state' = state)
      BY <2>8, Zenon DEF SendCallback, lockVars, mapVars, Holding
    <3> QED
      BY <3>1, DispatchStays, Zenon
  <2>9. CASE ExecuteLocks(t)
    <3>1. CASE state[cur[t]] # "IN_PROGRESS"
      <4>1. /\ pc' = [pc EXCEPT ![t] = "idle"] /\ pc[t] = "execute"
            /\ cur' = [cur EXCEPT ![t] = 0] /\ UNCHANGED <<taskLock, taskMap, state>>
        BY <2>9, <3>1, Zenon DEF ExecuteLocks, Goto, Forget, taskVars, mapVars
      <4>2. \A u \in Threads : /\ pc'[u] \in Holding <=> pc[u] \in Holding
                               /\ pc[u] \in Holding => cur'[u] = cur[u]
        BY <4>1, Zenon DEF IInv, ThreadTypeOK, Holding
      <4>3. \A j \in Keys : Outstanding(j) => Outstanding(j)'
        BY <4>1, Zenon DEF Outstanding
      <4> QED
        BY <4>1, <4>2, <4>3, MutexesStay, Zenon
    <3>2. CASE state[cur[t]] = "IN_PROGRESS"
      <4>1. /\ pc' = [pc EXCEPT ![t] = "write"] /\ pc[t] = "execute"
            /\ taskLock' = [taskLock EXCEPT ![cur[t]] = t] /\ taskLock[cur[t]] = NoThread
            /\ UNCHANGED <<cur, taskMap, state, entry>>
        BY <2>9, <3>2, Zenon DEF ExecuteLocks, Goto, taskVars, mapVars
      <4>2. cur[t] \in taskMap
        BY <3>2, <4>1, Zenon DEF IInv, ThreadInv, LockOf, TaskInv, Outstanding
      <4>3. OthersStay(t) /\ pc'[t] \in Holding /\ pc[t] \notin Holding
        BY <4>1, Zenon DEF OthersStay, IInv, ThreadTypeOK, Holding
      <4> QED
        BY <4>1, <4>2, <4>3, MutexTaken, Zenon
    <3> QED
      BY <3>1, <3>2, Zenon
  <2>10. CASE ExecuteCancel(t)
    <3>1. /\ pc[t] \in Holding /\ Goto(t, "record") /\ "record" \in Holding
          /\ UNCHANGED <<taskLock, taskMap, cur>> /\ state' = [state EXCEPT ![cur[t]] = "CANCELLED"]
      BY <2>10, Zenon DEF ExecuteCancel, BeginCancel, Holding, mapVars, lockVars
    <3>2. \A k \in Keys \ {cur[t]} : state'[k] = state[k]
      BY <3>1, Zenon DEF IInv, TaskTypeOK
    <3> QED
      BY <1>3, <3>1, <3>2, HolderStays, Zenon
  <2>11. CASE ExecuteFails(t)
    <3>1. /\ pc[t] \in Holding /\ taskLock' = [taskLock EXCEPT ![cur[t]] = NoThread]
          /\ UNCHANGED <<taskMap, state, entry>> /\ state[cur[t]] = "IN_PROGRESS"
          /\ cur' = [cur EXCEPT ![t] = 0] /\ pc' = [pc EXCEPT ![t] = "idle"]
      BY <1>3, <2>11, Zenon DEF ExecuteFails, Goto, Forget, Holding, IInv, ThreadInv,
         StateOf, taskVars, mapVars
    <3>2. OthersStay(t) /\ pc'[t] \notin Holding
      BY <1>3, <3>1, Zenon DEF OthersStay, IInv, ThreadTypeOK, Holding
    <3> QED
      BY <1>3, <3>1, <3>2, MutexFreed, Zenon
  <2>12. CASE ExecutePartial(t)
    <3>1. /\ pc[t] \in Holding /\ taskLock' = [taskLock EXCEPT ![cur[t]] = NoThread]
          /\ UNCHANGED <<taskMap, state, entry>> /\ state[cur[t]] = "IN_PROGRESS"
          /\ cur' = [cur EXCEPT ![t] = 0] /\ pc' = [pc EXCEPT ![t] = "idle"]
      BY <1>3, <2>12, Zenon DEF ExecutePartial, Goto, Forget, Holding, IInv, ThreadInv, StateOf
    <3>2. OthersStay(t) /\ pc'[t] \notin Holding
      BY <1>3, <3>1, Zenon DEF OthersStay, IInv, ThreadTypeOK, Holding
    <3> QED
      BY <1>3, <3>1, <3>2, MutexFreed, Zenon
  <2>13. CASE ExecuteComplete(t)
    <3>1. /\ pc[t] \in Holding /\ Goto(t, "erase") /\ "erase" \in Holding
          /\ UNCHANGED <<taskLock, taskMap, cur>> /\ state' = [state EXCEPT ![cur[t]] = "COMPLETED"]
      BY <2>13, Zenon DEF ExecuteComplete, Holding, mapVars, lockVars
    <3>2. \A k \in Keys \ {cur[t]} : state'[k] = state[k]
      BY <3>1, Zenon DEF IInv, TaskTypeOK
    <3> QED
      BY <1>3, <3>1, <3>2, HolderStays, Zenon
  <2>14. CASE CopyTasks(t)
    <3>1. /\ pc[t] \notin Holding /\ Goto(t, "next") /\ "next" \notin Holding
          /\ \A u \in Threads \ {t} : cur'[u] = cur[u]
          /\ UNCHANGED <<taskLock, taskMap, state>>
      BY <2>14, ThreadFacts, Zenon DEF CopyTasks, Holding, taskVars, mapVars, lockVars
    <3> QED
      BY <1>3, <3>1, ThreadFacts, OutsideStays, Zenon
  <2>15. CASE DispatchBarrier(t)
    BY <2>15, Zenon DEF DispatchBarrier, taskVars, mapVars, lockVars, HoldInv, Outstanding
  <2> QED
    BY <1>3, <2>1, <2>2, <2>3, <2>4, <2>5, <2>6, <2>7, <2>8, <2>9, <2>10, <2>11, <2>12,
       <2>13, <2>14, <2>15, Zenon DEF ThreadStep
<1>4. CASE DispatcherStep
  <2>1. CASE DispatchLoopEnds
    <3>1. /\ pc["dispatcher"] \notin Holding /\ Goto("dispatcher", "idle") /\ "idle" \notin Holding
          /\ \A u \in Threads \ {"dispatcher"} : cur'[u] = cur[u]
          /\ UNCHANGED <<taskLock, taskMap, state>>
      BY <2>1, ThreadFacts, Zenon DEF DispatchLoopEnds, Holding, taskVars, mapVars, lockVars
    <3> QED
      BY <3>1, ThreadFacts, OutsideStays, Zenon
  <2>2. CASE DispatchLoopSelects
    <3>1. /\ pc["dispatcher"] \notin Holding /\ Goto("dispatcher", "activate")
          /\ "activate" \notin Holding
          /\ \A u \in Threads \ {"dispatcher"} : cur'[u] = cur[u]
          /\ UNCHANGED <<taskLock, taskMap, state>>
      BY <2>2, ThreadFacts, Zenon DEF DispatchLoopSelects, Holding, taskVars, mapVars,
         lockVars, IInv, ThreadTypeOK
    <3> QED
      BY <3>1, ThreadFacts, OutsideStays, Zenon
  <2>3. CASE ActivateTask
    <3> DEFINE k == cur["dispatcher"]
    <3>1. k \in Keys /\ "dispatcher" \in Threads
      BY <2>3, ThreadFacts, Zenon DEF ActivateTask, IInv, ThreadInv, LockOf
    <3>2. CASE state[k] # "PENDING"
      <4>1. /\ pc' = [pc EXCEPT !["dispatcher"] = "select"] /\ pc["dispatcher"] = "activate"
            /\ cur' = [cur EXCEPT !["dispatcher"] = 0] /\ UNCHANGED <<taskLock, taskMap, state>>
        BY <2>3, <3>2, Zenon DEF ActivateTask, Goto, Forget, mapVars
      <4>2. \A u \in Threads : /\ pc'[u] \in Holding <=> pc[u] \in Holding
                               /\ pc[u] \in Holding => cur'[u] = cur[u]
        BY <3>1, <4>1, Zenon DEF IInv, ThreadTypeOK, Holding
      <4>3. \A j \in Keys : Outstanding(j) => Outstanding(j)'
        BY <4>1, Zenon DEF Outstanding
      <4> QED
        BY <4>1, <4>2, <4>3, MutexesStay, Zenon
    <3>3. CASE state[k] = "PENDING"
      <4>1. /\ \/ pc' = [pc EXCEPT !["dispatcher"] = "lookup"] /\ state' = state
               \/ /\ pc' = [pc EXCEPT !["dispatcher"] = "record"]
                  /\ state' = [state EXCEPT ![k] = "CANCELLED"]
            /\ pc["dispatcher"] = "activate"
            /\ taskLock' = [taskLock EXCEPT ![k] = "dispatcher"] /\ taskLock[k] = NoThread
            /\ UNCHANGED <<cur, taskMap, entry>>
        BY <2>3, <3>3, Zenon DEF ActivateTask, BeginCancel, Goto, mapVars
      <4>2. k \in taskMap
        BY <3>1, <3>3, Zenon DEF IInv, TaskInv, Outstanding
      <4>3. /\ OthersStay("dispatcher") /\ pc'["dispatcher"] \in Holding
            /\ pc["dispatcher"] \notin Holding
        BY <3>1, <4>1, Zenon DEF OthersStay, IInv, ThreadTypeOK, Holding
      <4>4. \A j \in Keys \ {k} : state'[j] = state[j]
        BY <4>1, Zenon DEF IInv, TaskTypeOK
      <4> QED
        BY <3>1, <4>1, <4>2, <4>3, <4>4, MutexTaken, Zenon
    <3> QED
      BY <3>2, <3>3, Zenon
  <2>4. CASE FetchDispatched
    <3>1. "dispatcher" \in Threads /\ cur["dispatcher"] \in Keys
      BY <2>4, ThreadFacts, Zenon DEF FetchDispatched, IInv, ThreadInv, LockOf, Holding
    <3>2. /\ OthersStay("dispatcher") /\ pc["dispatcher"] \in Holding
          /\ pc'["dispatcher"] \notin Holding
      BY <2>4, <3>1, Zenon DEF FetchDispatched, Goto, Forget, OthersStay, IInv, ThreadTypeOK,
         Holding
    <3>3. /\ state'[cur["dispatcher"]] = "IN_PROGRESS"
          /\ \A j \in Keys \ {cur["dispatcher"]} : state'[j] = state[j]
      <4>1. state' = [state EXCEPT ![cur["dispatcher"]] = "IN_PROGRESS"]
        BY <2>4, Zenon DEF FetchDispatched
      <4>2. state \in [Keys -> States]
        BY Zenon DEF IInv, TaskTypeOK
      <4> QED
        BY <3>1, <4>1, <4>2, Zenon
    <3> QED
      BY <2>4, <3>1, <3>2, <3>3, MutexFreed, Zenon DEF FetchDispatched
  <2> QED
    BY <1>4, <2>1, <2>2, <2>3, <2>4, Zenon DEF DispatcherStep
<1>5. CASE MonitorStep
  <2>1. CASE DeadlineLoopWakes
    <3>1. /\ pc["monitor"] \notin Holding /\ Goto("monitor", "next") /\ "next" \notin Holding
          /\ \A u \in Threads \ {"monitor"} : cur'[u] = cur[u]
          /\ UNCHANGED <<taskLock, taskMap, state>>
      BY <2>1, ThreadFacts, Zenon DEF DeadlineLoopWakes, Holding, taskVars, mapVars, lockVars
    <3> QED
      BY <3>1, ThreadFacts, OutsideStays, Zenon
  <2>2. CASE DeadlineLoopEnds
    <3>1. /\ pc["monitor"] \notin Holding /\ Goto("monitor", "idle") /\ "idle" \notin Holding
          /\ \A u \in Threads \ {"monitor"} : cur'[u] = cur[u]
          /\ UNCHANGED <<taskLock, taskMap, state>>
      BY <2>2, ThreadFacts, Zenon DEF DeadlineLoopEnds, Holding, taskVars, mapVars, lockVars
    <3> QED
      BY <3>1, ThreadFacts, OutsideStays, Zenon
  <2> QED
    BY <1>5, <2>1, <2>2, Zenon DEF MonitorStep
<1>6. CASE LifecycleCall
  <2>1. ASSUME NEW r \in {"SERVICE_STOP", "USER_SWITCH"}, ClearAll(r) PROVE HoldInv'
    <3>1. /\ pc["lifecycle"] \notin Holding /\ Goto("lifecycle", "barrier")
          /\ "barrier" \notin Holding
          /\ \A u \in Threads \ {"lifecycle"} : cur'[u] = cur[u]
          /\ UNCHANGED <<taskLock, taskMap, state>>
      BY <2>1, ThreadFacts, Zenon DEF ClearAll, Holding, taskVars, mapVars, lockVars
    <3> QED
      BY <3>1, ThreadFacts, OutsideStays, Zenon
  <2>2. CASE StartScheduler
    <3>1. \A u \in Threads : /\ pc'[u] \in Holding <=> pc[u] \in Holding
                             /\ pc[u] \in Holding => cur'[u] = cur[u]
      BY <2>2, ThreadFacts, Zenon DEF StartScheduler, RoleInv, taskVars, mapVars, lockVars, IInv,
         ThreadTypeOK, Holding
    <3>2. UNCHANGED <<taskLock, taskMap, state>>
      BY <2>2, Zenon DEF StartScheduler, RoleInv, taskVars, mapVars, lockVars
    <3>3. \A k \in Keys : Outstanding(k) => Outstanding(k)'
      BY <3>2, Zenon DEF Outstanding
    <3> QED
      BY <3>1, <3>2, <3>3, MutexesStay, Zenon
  <2> QED
    BY <1>6, <2>1, <2>2, Zenon DEF LifecycleCall
<1>7. CASE LifecycleStep
  <2>1. CASE StopScheduler
    <3>1. /\ pc["lifecycle"] \notin Holding /\ Goto("lifecycle", "next") /\ "next" \notin Holding
          /\ \A u \in Threads \ {"lifecycle"} : cur'[u] = cur[u]
          /\ UNCHANGED <<taskLock, taskMap, state>>
      BY <2>1, ThreadFacts, Zenon DEF StopScheduler, Holding, taskVars, mapVars, lockVars
    <3> QED
      BY <3>1, ThreadFacts, OutsideStays, Zenon
  <2>2. CASE StopSchedulerEnds
    <3>1. \A u \in Threads : /\ pc'[u] \in Holding <=> pc[u] \in Holding
                             /\ pc[u] \in Holding => cur'[u] = cur[u]
      BY <2>2, ThreadFacts, Zenon DEF StopSchedulerEnds, Goto, taskVars, lockVars, IInv,
         ThreadTypeOK, Holding
    <3>2. UNCHANGED <<taskLock, taskMap, state>>
      BY <2>2, Zenon DEF StopSchedulerEnds, Goto, taskVars, lockVars
    <3>3. \A k \in Keys : Outstanding(k) => Outstanding(k)'
      BY <3>2, Zenon DEF Outstanding
    <3> QED
      BY <3>1, <3>2, <3>3, MutexesStay, Zenon
  <2>3. CASE ClearCancellationRecords
    <3>1. \A u \in Threads : /\ pc'[u] \in Holding <=> pc[u] \in Holding
                             /\ pc[u] \in Holding => cur'[u] = cur[u]
      BY <2>3, ThreadFacts, Zenon DEF ClearCancellationRecords, Goto, taskVars, lockVars, IInv,
         ThreadTypeOK, Holding
    <3>2. UNCHANGED <<taskLock, taskMap, state>>
      BY <2>3, Zenon DEF ClearCancellationRecords, Goto, taskVars, lockVars
    <3>3. \A k \in Keys : Outstanding(k) => Outstanding(k)'
      BY <3>2, Zenon DEF Outstanding
    <3> QED
      BY <3>1, <3>2, <3>3, MutexesStay, Zenon
  <2> QED
    BY <1>7, <2>1, <2>2, <2>3, Zenon DEF LifecycleStep
<1>8. CASE Clock
  <2>1. ASSUME NEW k \in Keys, DeadlinePasses(k) PROVE HoldInv'
    BY <2>1, Zenon DEF DeadlinePasses, taskVars, lockVars, threadVars, HoldInv, Outstanding
  <2>2. CASE RecordExpires
    BY <2>2, Zenon DEF RecordExpires, taskVars, lockVars, threadVars, HoldInv, Outstanding
  <2> QED
    BY <1>8, <2>1, <2>2, Zenon DEF Clock
<1> QED
  BY <1>1, <1>2, <1>3, <1>4, <1>5, <1>6, <1>7, <1>8, Zenon DEF Next

(* A step that ends a task, or that starts it, moves its deadline or drops *)
(* it.                                                                     *)
LEMMA EndKeepsDeadlines ==
  ASSUME IInv, DeadlineInv, NEW k, NEW s, state' = [state EXCEPT ![k] = s],
         s \notin {"ABSENT", "PENDING"}, deadline' = deadline
  PROVE  DeadlineInv'
<1>1. ASSUME NEW j \in Keys, deadline'[j] # "none" PROVE state'[j] \notin {"ABSENT", "PENDING"}
  <2>1. state[j] \notin {"ABSENT", "PENDING"}
    BY <1>1, Zenon DEF DeadlineInv
  <2>2. state'[j] = s \/ state'[j] = state[j]
    BY Zenon DEF IInv, TaskTypeOK
  <2> QED
    BY <2>1, <2>2, Zenon
<1> QED
  BY <1>1, Zenon DEF DeadlineInv

LEMMA DeadlineMoves ==
  ASSUME IInv, DeadlineInv, NEW k \in Keys, NEW d, deadline' = [deadline EXCEPT ![k] = d],
         d # "none" => state'[k] \notin {"ABSENT", "PENDING"},
         \A j \in Keys \ {k} : state'[j] = state[j]
  PROVE  DeadlineInv'
<1>1. ASSUME NEW j \in Keys, deadline'[j] # "none" PROVE state'[j] \notin {"ABSENT", "PENDING"}
  <2>1. CASE j = k
    <3>1. d # "none"
      BY <1>1, <2>1, Zenon DEF IInv, TaskTypeOK
    <3> QED
      BY <2>1, <3>1, Zenon
  <2>2. CASE j # k
    <3>1. deadline'[j] = deadline[j] /\ state'[j] = state[j]
      BY <2>2, Zenon DEF IInv, TaskTypeOK
    <3> QED
      BY <1>1, <3>1, Zenon DEF DeadlineInv
  <2> QED
    BY <2>1, <2>2, Zenon
<1> QED
  BY <1>1, Zenon DEF DeadlineInv

LEMMA DeadlineInvKept ==
  ASSUME IInv, DeadlineInv, [Next]_vars
  PROVE  DeadlineInv'
<1>1. CASE UNCHANGED vars
  BY <1>1, Zenon DEF vars, taskVars, mapVars, DeadlineInv
<1>2. ASSUME NEW t \in Clients, Call(t) PROVE DeadlineInv'
  <2>1. ASSUME NEW f \in Files, NEW p \in Priorities, CreateHydrateTask(t, f, p) PROVE
     DeadlineInv'
    <3>1. nextKey \in Keys /\ state[nextKey] = "ABSENT"
      BY <2>1, FreshKey, Zenon DEF IInv, CreateHydrateTask
    <3>2. state' = [state EXCEPT ![nextKey] = "PENDING"] /\ deadline' = deadline
      BY <2>1, Zenon DEF CreateHydrateTask
    <3> QED
      BY <3>1, <3>2, Zenon DEF DeadlineInv, IInv, TaskTypeOK
  <2>2. ASSUME NEW a \in Apps, RegisterCallbackTable(t, a) PROVE DeadlineInv'
    BY <2>2, Zenon DEF RegisterCallbackTable, taskVars, mapVars, DeadlineInv
  <2>3. ASSUME NEW f \in Files, CancelTask(t, f) PROVE DeadlineInv'
    BY <2>3, Zenon DEF CancelTask, taskVars, mapVars, DeadlineInv
  <2>4. ASSUME NEW k \in Keys, ExecuteFound(t, k) PROVE DeadlineInv'
    BY <2>4, Zenon DEF ExecuteFound, taskVars, mapVars, DeadlineInv
  <2>5. ASSUME NEW k \in Keys, ExecuteNotFound(t, k) PROVE DeadlineInv'
    BY <2>5, Zenon DEF ExecuteNotFound, PurgeExpiredCancellationRecords, RecordsAre, taskVars,
       DeadlineInv
  <2>6. ASSUME NEW a \in Apps, NEW r \in {"UNREGISTER", "CALLBACK_DIED"},
     UnregisterCallbackTable(t, a, r) PROVE DeadlineInv'
    BY <2>6, Zenon DEF UnregisterCallbackTable, taskVars, mapVars, DeadlineInv
  <2> QED
    BY <1>2, <2>1, <2>2, <2>3, <2>4, <2>5, <2>6, Zenon DEF Call
<1>3. ASSUME NEW t \in Threads, ThreadStep(t) PROVE DeadlineInv'
  <2>1. CASE EraseTask(t)
    <3>1. /\ cur[t] \in Keys /\ state' = state
          /\ deadline' = [deadline EXCEPT ![cur[t]] = "none"]
      BY <1>3, <2>1, Zenon DEF EraseTask, IInv, ThreadInv, LockOf, Holding, taskVars
    <3> QED
      BY <3>1, DeadlineMoves, Zenon
  <2>2. CASE CancelNext(t)
    <3>1. /\ deadline' = deadline
          /\ \/ state' = state
             \/ \E k \in todo[t] : state' = [state EXCEPT ![k] = "CANCELLED"]
      BY <2>2, Zenon DEF CancelNext, BeginCancel, mapVars
    <3>2. "CANCELLED" \notin {"ABSENT", "PENDING"}
      OBVIOUS
    <3>3. CASE state' = state
      BY <3>1, <3>3, Zenon DEF DeadlineInv
    <3>4. CASE \E k \in todo[t] : state' = [state EXCEPT ![k] = "CANCELLED"]
      BY <3>1, <3>2, <3>4, EndKeepsDeadlines, Zenon
    <3> QED
      BY <3>1, <3>3, <3>4, Zenon
  <2>3. CASE FindEntry(t)
    <3>1. /\ deadline' = deadline
          /\ state' = state \/ state' = [state EXCEPT ![cur[t]] = "CANCELLED"]
      BY <2>3, Zenon DEF FindEntry, DispatchFails, BeginCancel, mapVars
    <3> QED
      BY <3>1, EndKeepsDeadlines, Zenon DEF DeadlineInv
  <2>4. CASE LockEntry(t)
    <3>1. /\ deadline' = deadline
          /\ state' = state \/ state' = [state EXCEPT ![cur[t]] = "CANCELLED"]
      BY <2>4, Zenon DEF LockEntry, DispatchFails, BeginCancel, mapVars
    <3> QED
      BY <3>1, EndKeepsDeadlines, Zenon DEF DeadlineInv
  <2>5. CASE SendCallback(t)
    <3>1. /\ deadline' = deadline
          /\ state' = state \/ state' = [state EXCEPT ![cur[t]] = "CANCELLED"]
      BY <2>5, Zenon DEF SendCallback, DispatchFails, BeginCancel, mapVars
    <3> QED
      BY <3>1, EndKeepsDeadlines, Zenon DEF DeadlineInv
  <2>6. CASE ExecuteCancel(t)
    <3>1. deadline' = deadline /\ state' = [state EXCEPT ![cur[t]] = "CANCELLED"]
      BY <2>6, Zenon DEF ExecuteCancel, BeginCancel, mapVars
    <3>2. "CANCELLED" \notin {"ABSENT", "PENDING"}
      OBVIOUS
    <3> QED
      BY <3>1, <3>2, EndKeepsDeadlines, Zenon
  <2>7. CASE ExecutePartial(t)
    <3>1. /\ cur[t] \in Keys /\ state' = state /\ state[cur[t]] = "IN_PROGRESS"
          /\ deadline' = [deadline EXCEPT ![cur[t]] = "armed"]
      BY <1>3, <2>7, Zenon DEF ExecutePartial, IInv, ThreadInv, LockOf, StateOf, Holding
    <3> QED
      BY <3>1, DeadlineMoves, Zenon
  <2>8. CASE ExecuteComplete(t)
    <3>1. deadline' = deadline /\ state' = [state EXCEPT ![cur[t]] = "COMPLETED"]
      BY <2>8, Zenon DEF ExecuteComplete, mapVars
    <3>2. "COMPLETED" \notin {"ABSENT", "PENDING"}
      OBVIOUS
    <3> QED
      BY <3>1, <3>2, EndKeepsDeadlines, Zenon
  <2>9. CASE ScheduleDispatch(t)
    BY <2>9, Zenon DEF ScheduleDispatch, taskVars, mapVars, DeadlineInv
  <2>10. CASE KeepRecord(t)
    BY <2>10, Zenon DEF KeepRecord, RecordsAre, taskVars, DeadlineInv
  <2>11. CASE CancelDone(t)
    BY <2>11, Zenon DEF CancelDone, taskVars, mapVars, DeadlineInv
  <2>12. CASE ExecuteLocks(t)
    BY <2>12, Zenon DEF ExecuteLocks, taskVars, mapVars, DeadlineInv
  <2>13. CASE ExecuteFails(t)
    BY <2>13, Zenon DEF ExecuteFails, taskVars, mapVars, DeadlineInv
  <2>14. CASE DispatchBarrier(t)
    BY <2>14, Zenon DEF DispatchBarrier, taskVars, mapVars, DeadlineInv
  <2>15. CASE CopyTasks(t)
    BY <2>15, Zenon DEF CopyTasks, taskVars, mapVars, DeadlineInv
  <2> QED
    BY <1>3, <2>1, <2>2, <2>3, <2>4, <2>5, <2>6, <2>7, <2>8, <2>9, <2>10, <2>11, <2>12,
       <2>13, <2>14, <2>15, Zenon DEF ThreadStep
<1>4. CASE DispatcherStep
  <2>1. CASE ActivateTask
    <3>1. /\ deadline' = deadline
          /\ state' = state \/ state' = [state EXCEPT ![cur["dispatcher"]] = "CANCELLED"]
      BY <2>1, Zenon DEF ActivateTask, BeginCancel, mapVars
    <3> QED
      BY <3>1, EndKeepsDeadlines, Zenon DEF DeadlineInv
  <2>2. CASE FetchDispatched
    <3>1. /\ cur["dispatcher"] \in Keys
          /\ state' = [state EXCEPT ![cur["dispatcher"]] = "IN_PROGRESS"]
          /\ deadline' = [deadline EXCEPT ![cur["dispatcher"]] = "armed"]
      BY <2>2, ThreadFacts, Zenon DEF FetchDispatched, IInv, ThreadInv, LockOf, Holding
    <3>2. /\ state'[cur["dispatcher"]] = "IN_PROGRESS"
          /\ \A j \in Keys \ {cur["dispatcher"]} : state'[j] = state[j]
      BY <3>1, Zenon DEF IInv, TaskTypeOK
    <3> QED
      BY <3>1, <3>2, DeadlineMoves, Zenon
  <2>3. CASE DispatchLoopEnds
    BY <2>3, Zenon DEF DispatchLoopEnds, taskVars, mapVars, DeadlineInv
  <2>4. CASE DispatchLoopSelects
    BY <2>4, Zenon DEF DispatchLoopSelects, taskVars, mapVars, DeadlineInv
  <2> QED
    BY <1>4, <2>1, <2>2, <2>3, <2>4, Zenon DEF DispatcherStep
<1>5. CASE MonitorStep
  <2>1. CASE DeadlineLoopWakes
    BY <2>1, Zenon DEF DeadlineLoopWakes, taskVars, mapVars, DeadlineInv
  <2>2. CASE DeadlineLoopEnds
    BY <2>2, Zenon DEF DeadlineLoopEnds, taskVars, mapVars, DeadlineInv
  <2> QED
    BY <1>5, <2>1, <2>2, Zenon DEF MonitorStep
<1>6. CASE LifecycleCall
  <2>1. ASSUME NEW r \in {"SERVICE_STOP", "USER_SWITCH"}, ClearAll(r) PROVE DeadlineInv'
    BY <2>1, Zenon DEF ClearAll, taskVars, mapVars, DeadlineInv
  <2>2. CASE StartScheduler
    BY <2>2, Zenon DEF StartScheduler, taskVars, mapVars, DeadlineInv
  <2> QED
    BY <1>6, <2>1, <2>2, Zenon DEF LifecycleCall
<1>7. CASE LifecycleStep
  <2>1. CASE StopSchedulerEnds
    BY <2>1, ThreadFacts, Zenon DEF StopSchedulerEnds, Goto, Forget, ClearedRecords, RecordsAre,
       IInv, ThreadTypeOK, TaskTypeOK, ThreadInv, LockOf, StateOf, Holding, DeadlineInv,
       taskVars
  <2>2. CASE StopScheduler
    BY <2>2, Zenon DEF StopScheduler, taskVars, mapVars, DeadlineInv
  <2>3. CASE ClearCancellationRecords
    BY <2>3, Zenon DEF ClearCancellationRecords, ClearedRecords, RecordsAre, taskVars, DeadlineInv
  <2> QED
    BY <1>7, <2>1, <2>2, <2>3, Zenon DEF LifecycleStep
<1>8. CASE Clock
  <2>1. ASSUME NEW k \in Keys, DeadlinePasses(k) PROVE DeadlineInv'
    <3>1. /\ deadline' = [deadline EXCEPT ![k] = "passed"] /\ state' = state
          /\ state[k] \notin {"ABSENT", "PENDING"}
      BY <2>1, Zenon DEF DeadlinePasses, DeadlineInv, taskVars
    <3> QED
      BY <3>1, DeadlineMoves, Zenon
  <2>2. CASE RecordExpires
    BY <2>2, Zenon DEF RecordExpires, taskVars, DeadlineInv
  <2> QED
    BY <1>8, <2>1, <2>2, Zenon DEF Clock
<1> QED
  BY <1>1, <1>2, <1>3, <1>4, <1>5, <1>6, <1>7, <1>8, Zenon DEF Next
=============================================================================
