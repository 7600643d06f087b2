------------------------------ MODULE MediaReads ------------------------------
(***************************************************************************)
(* Reads of one page of a cloud media file and their cancellation, lock by *)
(* lock (fuse_manager.cpp). A read request waits for a page another read   *)
(* has begun, submits a task that downloads the page, and waits for the    *)
(* task; both waits end by a notification, a cancellation or a timeout.    *)
(* Four locks of the inode are involved: sessionLock (shared), readLock,   *)
(* readArgsLock, and the mutex of the page's entry in readCacheMap.        *)
(*                                                                         *)
(* A thread is <<kind, r>>: the request of process r, its download task,   *)
(* or the ioctl by which process r cancels its reads. A label names what   *)
(* the thread does next; a step that needs a lock is enabled when it is    *)
(* free.                                                                   *)
(***************************************************************************)
EXTENDS Integers, FiniteSets

CONSTANTS Readers, Cancellers     \* processes that read; those of them that cancel

VARIABLES
    pc,         \* per thread: its label
    lock,       \* "page", "args", "read", "session" -> the thread that holds it, or None
    shared,     \* threads that hold sessionLock shared
    page,       \* flags of the page's entry in readCacheMap, or "absent"
    cancelled,  \* processes with readCtlMap[pid]
    argsSet,    \* requests whose arguments are in readArgsSet
    status,     \* per request: *readStatus
    woken,      \* threads notified while they wait
    late,       \* threads whose wait timed out
    reply       \* per request: its answer

vars == <<pc, lock, shared, page, cancelled, argsSet, status, woken, late, reply>>

Threads == ({"request", "task"} \X Readers) \cup ({"cancel"} \X Cancellers)
None == <<"none", "none">>
Pid(t) == t[2]
Free(l) == lock[l] = None
SharedFree == Free("session")
AllFree == Free("session") /\ shared = {}
Goto(t, l) == pc' = [pc EXCEPT ![t] = l]
Is(t, l) == pc[t] = l

TypeOK ==
    /\ lock \in [{"page", "args", "read", "session"} -> Threads \cup {None}]
    /\ shared \subseteq Threads
    /\ page \in {"absent", "ahead", "uptodate"}
    /\ status \in [Readers -> {"reading", "finished", "cancelled"}]
    /\ reply \in [Readers -> {"none", "data", "EIO", "ENETUNREACH"}]

Init ==
    /\ pc = [t \in Threads |-> IF t[1] = "task" THEN "none" ELSE "begin"]
    /\ lock = [l \in {"page", "args", "read", "session"} |-> None]
    /\ shared = {} /\ page = "absent" /\ cancelled = {} /\ argsSet = {}
    /\ status = [r \in Readers |-> "reading"]
    /\ woken = {} /\ late = {}
    /\ reply = [r \in Readers |-> "none"]

-----------------------------------------------------------------------------
(* CheckAndWait, called by a request and by its task                       *)

\* IsReadAhead takes sessionLock shared, then the page's mutex inside it.
IsReadAheadBegin(t) ==
    /\ Is(t, "look") /\ SharedFree
    /\ shared' = shared \cup {t} /\ Goto(t, "lookPage")
    /\ UNCHANGED <<lock, page, cancelled, argsSet, status, woken, late, reply>>

IsReadAhead(t) ==
    /\ Is(t, "lookPage") /\ Free("page")
    /\ shared' = shared \ {t}
    /\ Goto(t, IF page = "ahead" THEN "wait" ELSE "check")
    /\ UNCHANGED <<lock, page, cancelled, argsSet, status, woken, late, reply>>

WaitBegin(t) ==
    /\ Is(t, "wait") /\ Free("page")
    /\ lock' = [lock EXCEPT !["page"] = t] /\ Goto(t, "pred")
    /\ UNCHANGED <<shared, page, cancelled, argsSet, status, woken, late, reply>>

\* The predicate of the wait, evaluated with the page's mutex held: up to
\* date, or (under readArgsLock) cancelled.
WaitPredicate(t) ==
    /\ Is(t, "pred")
    /\ page = "uptodate" \/ Free("args")
    /\ lock' = [lock EXCEPT !["page"] = None]
    /\ woken' = woken \ {t}
    /\ late' = late \ {t}
    /\ LET over == page = "uptodate" \/ Pid(t) \in cancelled IN
       Goto(t, IF over THEN "check" ELSE IF t \in late THEN "fail" ELSE "asleep")
    /\ UNCHANGED <<shared, page, cancelled, argsSet, status, reply>>

\* Notified, or READ_TIMEOUT_S is over.
WakeUp(t) ==
    /\ Is(t, "asleep") /\ Free("page")
    /\ lock' = [lock EXCEPT !["page"] = t] /\ Goto(t, "pred")
    /\ late' = IF t \in woken THEN late ELSE late \cup {t}
    /\ UNCHANGED <<shared, page, cancelled, argsSet, status, woken, reply>>

\* The check after the wait.
CheckAndWaitEnds(t) ==
    /\ Is(t, "check") /\ Free("args")
    /\ Goto(t, IF Pid(t) \in cancelled THEN "fail" ELSE IF t[1] = "task" THEN "read" ELSE "submit")
    /\ UNCHANGED <<lock, shared, page, cancelled, argsSet, status, woken, late, reply>>

-----------------------------------------------------------------------------
(* The request                                                             *)

Request(r) == <<"request", r>>
Task(r) == <<"task", r>>

CloudReadHelper(r) ==
    /\ Is(Request(r), "begin") /\ Free("args")
    /\ IF r \in cancelled
       THEN Goto(Request(r), "done") /\ reply' = [reply EXCEPT ![r] = "EIO"]
       ELSE Goto(Request(r), "look") /\ UNCHANGED reply
    /\ UNCHANGED <<lock, shared, page, cancelled, argsSet, status, woken, late>>

DoReadSliceFails(r) ==
    /\ Is(Request(r), "fail")
    /\ Goto(Request(r), "done") /\ reply' = [reply EXCEPT ![r] = "ENETUNREACH"]
    /\ UNCHANGED <<lock, shared, page, cancelled, argsSet, status, woken, late>>

DoReadSlice(r) ==
    /\ Is(Request(r), "submit")
    /\ pc' = [pc EXCEPT ![Request(r)] = "insert", ![Task(r)] = "begin"]
    /\ UNCHANGED <<lock, shared, page, cancelled, argsSet, status, woken, late, reply>>

\* Only now can a cancellation find the request.
InsertReadArgs(r) ==
    /\ Is(Request(r), "insert") /\ Free("args")
    /\ argsSet' = argsSet \cup {r} /\ Goto(Request(r), "data")
    /\ UNCHANGED <<lock, shared, page, cancelled, status, woken, late, reply>>

Answer(r) == [reply EXCEPT ![r] = IF status[r] = "finished" THEN "data" ELSE "EIO"]

\* WaitData looks at the status under readLock and sleeps.
WaitData(r) ==
    /\ Is(Request(r), "data") /\ Free("read")
    /\ IF status[r] # "reading" THEN Goto(Request(r), "erase") /\ reply' = Answer(r)
       ELSE Goto(Request(r), "dataAsleep") /\ UNCHANGED reply
    /\ UNCHANGED <<lock, shared, page, cancelled, argsSet, status, woken, late>>

\* It wakes up with readLock; when the time is over and the status is not set
\* it keeps readLock and marks the page up to date for the others.
WaitDataWakes(r) ==
    /\ Is(Request(r), "dataAsleep") /\ Free("read")
    /\ IF status[r] # "reading"
       THEN Goto(Request(r), "erase") /\ reply' = Answer(r) /\ UNCHANGED lock
       ELSE Goto(Request(r), "flag") /\ lock' = [lock EXCEPT !["read"] = Request(r)] /\ UNCHANGED reply
    /\ woken' = woken \ {Request(r)}
    /\ UNCHANGED <<shared, page, cancelled, argsSet, status, late>>

EraseReadArgs(r) ==
    /\ Is(Request(r), "erase") /\ Free("args")
    /\ argsSet' = argsSet \ {r} /\ Goto(Request(r), "done")
    /\ UNCHANGED <<lock, shared, page, cancelled, status, woken, late, reply>>

-----------------------------------------------------------------------------
(* The task                                                                *)

CloudReadOnCloudFile(r) ==
    /\ Is(Task(r), "begin") /\ AllFree
    /\ IF page = "absent" THEN page' = "ahead" /\ Goto(Task(r), "read")
       ELSE UNCHANGED page /\ Goto(Task(r), "look")
    /\ UNCHANGED <<lock, shared, cancelled, argsSet, status, woken, late, reply>>

\* A task that was cancelled or waited too long ends without a status.
TaskEnds(r) ==
    /\ Is(Task(r), "fail") /\ Goto(Task(r), "done")
    /\ UNCHANGED <<lock, shared, page, cancelled, argsSet, status, woken, late, reply>>

\* ExecuteCloudRead returns at some time; the status is set under readLock.
ReadFinished(r) ==
    /\ Is(Task(r), "read") /\ Free("read")
    /\ status' = [status EXCEPT ![r] = "finished"]
    /\ woken' = woken \cup {t \in {Request(r)} : Is(t, "dataAsleep")}
    /\ Goto(Task(r), "flag")
    /\ UNCHANGED <<lock, shared, page, cancelled, argsSet, late, reply>>

-----------------------------------------------------------------------------
(* SetReadCacheFlag(PG_UPTODATE) and the notification after it, by a task  *)
(* that has read the page and by a request whose wait timed out            *)

SetReadCacheFlagBegin(t) ==
    /\ Is(t, "flag") /\ SharedFree
    /\ shared' = shared \cup {t} /\ Goto(t, "flagPage")
    /\ UNCHANGED <<lock, page, cancelled, argsSet, status, woken, late, reply>>

\* Mutant: the flag is set and nobody is told.
SetFlagSilently(t) ==
    /\ Is(t, "flagPage") /\ Free("page")
    /\ page' = "uptodate" /\ shared' = shared \ {t} /\ Goto(t, "done")
    /\ UNCHANGED <<lock, cancelled, argsSet, status, woken, late, reply>>

SetReadCacheFlag(t) ==
    /\ Is(t, "flagPage") /\ Free("page")
    /\ page' = "uptodate" /\ shared' = shared \ {t} /\ Goto(t, "notify")
    /\ UNCHANGED <<lock, cancelled, argsSet, status, woken, late, reply>>

Sleepers == {t \in Threads : Is(t, "asleep")}

NotifyPage(t) ==
    /\ Is(t, "notify") /\ AllFree
    /\ woken' = woken \cup Sleepers
    /\ IF t[1] = "task"
       THEN Goto(t, "done") /\ UNCHANGED <<lock, reply>>
       ELSE /\ Goto(t, "erase")
            /\ lock' = [lock EXCEPT !["read"] = None]
            /\ reply' = [reply EXCEPT ![Pid(t)] = "ENETUNREACH"]
    /\ UNCHANGED <<shared, page, cancelled, argsSet, status, late>>

-----------------------------------------------------------------------------
(* CancelRead                                                              *)

Cancel(r) == <<"cancel", r>>

CancelRead(r) ==
    /\ Is(Cancel(r), "begin") /\ Free("args")
    /\ cancelled' = cancelled \cup {r}
    /\ IF r \in argsSet
       THEN lock' = [lock EXCEPT !["args"] = Cancel(r)] /\ Goto(Cancel(r), "status")
       ELSE UNCHANGED lock /\ Goto(Cancel(r), "pages")
    /\ UNCHANGED <<shared, page, argsSet, status, woken, late, reply>>

\* The status of the process' requests, under readLock inside readArgsLock.
CancelStatus(r) ==
    /\ Is(Cancel(r), "status") /\ Free("read")
    /\ status' = [status EXCEPT ![r] = "cancelled"]
    /\ woken' = woken \cup {t \in {Request(r)} : Is(t, "dataAsleep")}
    /\ lock' = [lock EXCEPT !["args"] = None]
    /\ Goto(Cancel(r), "pages")
    /\ UNCHANGED <<shared, page, cancelled, argsSet, late, reply>>

\* Those who wait for a page are told, under its mutex inside sessionLock.
CancelPagesBegin(r) ==
    /\ Is(Cancel(r), "pages") /\ AllFree
    /\ lock' = [lock EXCEPT !["session"] = Cancel(r)] /\ Goto(Cancel(r), "tell")
    /\ UNCHANGED <<shared, page, cancelled, argsSet, status, woken, late, reply>>

CancelPages(r) ==
    /\ Is(Cancel(r), "tell") /\ (page = "absent" \/ Free("page"))
    /\ woken' = IF page = "ahead" THEN woken \cup Sleepers ELSE woken
    /\ lock' = [lock EXCEPT !["session"] = None] /\ Goto(Cancel(r), "done")
    /\ UNCHANGED <<shared, page, cancelled, argsSet, status, late, reply>>

ResetRead(r) ==
    /\ Is(Cancel(r), "done") /\ r \in cancelled /\ Free("args")
    /\ cancelled' = cancelled \ {r}
    /\ UNCHANGED <<pc, lock, shared, page, argsSet, status, woken, late, reply>>

-----------------------------------------------------------------------------
CheckAndWait(t) ==
    IsReadAheadBegin(t) \/ IsReadAhead(t) \/ WaitBegin(t) \/ WaitPredicate(t) \/ WakeUp(t) \/ CheckAndWaitEnds(t)

FlagPage(t) == SetReadCacheFlagBegin(t) \/ SetReadCacheFlag(t) \/ NotifyPage(t)

RequestStep(r) ==
    \/ CheckAndWait(Request(r)) \/ FlagPage(Request(r))
    \/ CloudReadHelper(r) \/ DoReadSliceFails(r) \/ DoReadSlice(r) \/ InsertReadArgs(r)
    \/ WaitData(r) \/ WaitDataWakes(r) \/ EraseReadArgs(r)

TaskStep(r) ==
    \/ CheckAndWait(Task(r)) \/ FlagPage(Task(r))
    \/ CloudReadOnCloudFile(r) \/ TaskEnds(r) \/ ReadFinished(r)

CancelStep(r) == CancelRead(r) \/ CancelStatus(r) \/ CancelPagesBegin(r) \/ CancelPages(r)

Next ==
    \/ \E r \in Readers : RequestStep(r) \/ TaskStep(r)
    \/ \E r \in Cancellers : CancelStep(r) \/ ResetRead(r)

Spec == Init /\ [][Next]_vars

\* Every thread is scheduled; every wait is bounded by READ_TIMEOUT_S, every
\* download and every cancellation that has begun goes on.
FairSpec ==
    /\ Spec
    /\ \A r \in Readers : SF_vars(RequestStep(r)) /\ SF_vars(TaskStep(r))
    /\ \A r \in Cancellers : SF_vars(CancelStep(r) /\ pc[Cancel(r)] # "begin")

-----------------------------------------------------------------------------
\* A read or task that sleeps on the page although the page is up to date, or
\* although its process has cancelled, has been woken or will be: by the
\* thread that set the flag, or by the cancellation that is under way.  No
\* notification falls between its look at the predicate and its sleep.
NoLostPageWakeup ==
    \A t \in Threads : Is(t, "asleep") /\ t \notin woken =>
        /\ page = "uptodate" => \E u \in Threads : Is(u, "notify")
        /\ Pid(t) \in cancelled /\ page = "ahead" => pc[Cancel(Pid(t))] \in {"status", "pages", "tell"}

\* A request answered with data had its download finished, and one that its
\* process cancelled after its arguments were known is not left waiting
\* without a wake-up.
AnswersAreJustified ==
    \A r \in Readers :
        /\ reply[r] = "data" => pc[Task(r)] \in {"flag", "flagPage", "notify", "done"}
        /\ Is(Request(r), "dataAsleep") /\ status[r] # "reading" => Request(r) \in woken

\* Nobody is left hanging on a page or on a download that has an answer.
ReadsAreWoken == NoLostPageWakeup /\ AnswersAreJustified

\* "wait and reply current req data": every request that has begun is answered.
EveryReadIsAnswered ==
    \A r \in Readers : Is(Request(r), "look") ~> reply[r] # "none"
=============================================================================
