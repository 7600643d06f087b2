------------------------ MODULE CloudFileDaemonProofs ------------------------
(***************************************************************************)
(* Two parts of the cloud file daemon, which share no state: the reads of  *)
(* the media library and the migration of the database.                    *)
(***************************************************************************)
EXTENDS MediaReads, TLAPS

(***************************************************************************)
(* Reads: no wake-up is lost, for any number of processes that read and    *)
(* cancel.                                                                 *)
(***************************************************************************)
Labels == {"none", "begin", "look", "lookPage", "wait", "pred", "asleep", "check", "read",
           "fail", "submit", "insert", "data", "dataAsleep", "erase", "flag", "flagPage",
           "notify", "status", "pages", "tell", "done"}
TypeInv ==
    /\ pc \in [Threads -> Labels]
    /\ status \in [Readers -> {"reading", "finished", "cancelled"}]
    /\ reply \in [Readers -> {"none", "data", "EIO", "ENETUNREACH"}]

(* Who waits for the page does so because another read has begun it.       *)
PageInv == \A t \in Threads : pc[t] \in {"wait", "pred", "asleep"} => page # "absent"

(* A task exists from the moment its request has submitted it, and a       *)
(* status "finished" was set by it.                                        *)
Submitted == {"insert", "data", "dataAsleep", "erase", "flag", "flagPage", "notify", "done"}
TaskInv ==
    \A r \in Readers :
        /\ pc[Task(r)] # "none" => pc[Request(r)] \in Submitted
        /\ status[r] = "finished" => pc[Task(r)] \in {"flag", "flagPage", "notify", "done"}

(* A process that has cancelled and not reset is one that may cancel.      *)
CancelInv == cancelled \subseteq Cancellers

Inv == TypeInv /\ PageInv /\ TaskInv /\ CancelInv /\ NoLostPageWakeup /\ AnswersAreJustified

(***************************************************************************)
(* The threads.                                                            *)
(***************************************************************************)
LEMMA ThreadFacts ==
    /\ \A r \in Readers : Request(r) \in Threads /\ Task(r) \in Threads
    /\ \A r \in Cancellers : Cancel(r) \in Threads
    /\ \A r, s : Request(r) # Task(s) /\ Request(r) # Cancel(s) /\ Task(r) # Cancel(s)
    /\ \A r, s : (Request(r) = Request(s) => r = s) /\ (Task(r) = Task(s) => r = s)
                 /\ (Cancel(r) = Cancel(s) => r = s)
    /\ \A r : Pid(Request(r)) = r /\ Pid(Task(r)) = r /\ Pid(Cancel(r)) = r
    /\ \A r : Request(r)[1] = "request" /\ Task(r)[1] = "task" /\ Cancel(r)[1] = "cancel"
BY DEF Threads, Request, Task, Cancel, Pid

LEMMA IsReadAheadBeginStep ==
    ASSUME Inv, NEW t \in Threads, IsReadAheadBegin(t), t[1] # "cancel"
    PROVE  Inv'
<1>1. TypeInv'
  BY ThreadFacts DEF IsReadAheadBegin, Goto, Is, Inv, TypeInv, Labels
<1>2. PageInv'
  BY ThreadFacts DEF IsReadAheadBegin, Goto, Is, Inv, TypeInv, PageInv
<1>3. TaskInv'
  BY ThreadFacts DEF IsReadAheadBegin, Goto, Is, Inv, TypeInv, TaskInv, Submitted
<1>4. CancelInv'
  BY ThreadFacts DEF IsReadAheadBegin, Goto, Is, Inv, CancelInv
<1>5. NoLostPageWakeup'
  BY ThreadFacts DEF IsReadAheadBegin, Goto, Is, Inv, TypeInv, PageInv, CancelInv,
     NoLostPageWakeup
<1>6. AnswersAreJustified'
  BY ThreadFacts DEF IsReadAheadBegin, Goto, Is, Inv, TypeInv, TaskInv,
     AnswersAreJustified
<1> QED
  BY <1>1, <1>2, <1>3, <1>4, <1>5, <1>6 DEF Inv

LEMMA IsReadAheadStep ==
    ASSUME Inv, NEW t \in Threads, IsReadAhead(t), t[1] # "cancel"
    PROVE  Inv'
<1>1. TypeInv'
  BY ThreadFacts DEF IsReadAhead, Goto, Is, Inv, TypeInv, Labels
<1>2. PageInv'
  BY ThreadFacts DEF IsReadAhead, Goto, Is, Inv, TypeInv, PageInv
<1>3. TaskInv'
  BY ThreadFacts DEF IsReadAhead, Goto, Is, Inv, TypeInv, TaskInv, Submitted
<1>4. CancelInv'
  BY ThreadFacts DEF IsReadAhead, Goto, Is, Inv, CancelInv
<1>5. NoLostPageWakeup'
  BY ThreadFacts DEF IsReadAhead, Goto, Is, Inv, TypeInv, PageInv, CancelInv,
     NoLostPageWakeup
<1>6. AnswersAreJustified'
  BY ThreadFacts DEF IsReadAhead, Goto, Is, Inv, TypeInv, TaskInv, AnswersAreJustified
<1> QED
  BY <1>1, <1>2, <1>3, <1>4, <1>5, <1>6 DEF Inv

LEMMA WaitBeginStep ==
    ASSUME Inv, NEW t \in Threads, WaitBegin(t), t[1] # "cancel"
    PROVE  Inv'
<1>1. TypeInv'
  BY ThreadFacts DEF WaitBegin, Goto, Is, Inv, TypeInv, Labels
<1>2. PageInv'
  BY ThreadFacts DEF WaitBegin, Goto, Is, Inv, TypeInv, PageInv
<1>3. TaskInv'
  BY ThreadFacts DEF WaitBegin, Goto, Is, Inv, TypeInv, TaskInv, Submitted
<1>4. CancelInv'
  BY ThreadFacts DEF WaitBegin, Goto, Is, Inv, CancelInv
<1>5. NoLostPageWakeup'
  BY ThreadFacts DEF WaitBegin, Goto, Is, Inv, TypeInv, PageInv, CancelInv,
     NoLostPageWakeup
<1>6. AnswersAreJustified'
  BY ThreadFacts DEF WaitBegin, Goto, Is, Inv, TypeInv, TaskInv, AnswersAreJustified
<1> QED
  BY <1>1, <1>2, <1>3, <1>4, <1>5, <1>6 DEF Inv

LEMMA WaitPredicateStep ==
    ASSUME Inv, NEW t \in Threads, WaitPredicate(t), t[1] # "cancel"
    PROVE  Inv'
<1>1. TypeInv'
  BY ThreadFacts DEF WaitPredicate, Goto, Is, Inv, TypeInv, Labels
<1>2. PageInv'
  BY ThreadFacts DEF WaitPredicate, Goto, Is, Inv, TypeInv, PageInv
<1>3. TaskInv'
  BY ThreadFacts DEF WaitPredicate, Goto, Is, Inv, TypeInv, TaskInv, Submitted
<1>4. CancelInv'
  BY ThreadFacts DEF WaitPredicate, Goto, Is, Inv, CancelInv
<1>5. NoLostPageWakeup'
  BY ThreadFacts DEF WaitPredicate, Goto, Is, Inv, TypeInv, PageInv, CancelInv,
     NoLostPageWakeup
<1>6. AnswersAreJustified'
  BY ThreadFacts DEF WaitPredicate, Goto, Is, Inv, TypeInv, TaskInv, AnswersAreJustified
<1> QED
  BY <1>1, <1>2, <1>3, <1>4, <1>5, <1>6 DEF Inv

LEMMA WakeUpStep ==
    ASSUME Inv, NEW t \in Threads, WakeUp(t), t[1] # "cancel"
    PROVE  Inv'
<1>1. TypeInv'
  BY ThreadFacts DEF WakeUp, Goto, Is, Inv, TypeInv, Labels
<1>2. PageInv'
  BY ThreadFacts DEF WakeUp, Goto, Is, Inv, TypeInv, PageInv
<1>3. TaskInv'
  BY ThreadFacts DEF WakeUp, Goto, Is, Inv, TypeInv, TaskInv, Submitted
<1>4. CancelInv'
  BY ThreadFacts DEF WakeUp, Goto, Is, Inv, CancelInv
<1>5. NoLostPageWakeup'
  BY ThreadFacts DEF WakeUp, Goto, Is, Inv, TypeInv, PageInv, CancelInv, NoLostPageWakeup
<1>6. AnswersAreJustified'
  BY ThreadFacts DEF WakeUp, Goto, Is, Inv, TypeInv, TaskInv, AnswersAreJustified
<1> QED
  BY <1>1, <1>2, <1>3, <1>4, <1>5, <1>6 DEF Inv

LEMMA CheckAndWaitEndsStep ==
    ASSUME Inv, NEW t \in Threads, CheckAndWaitEnds(t), t[1] # "cancel"
    PROVE  Inv'
<1>1. TypeInv'
  BY ThreadFacts DEF CheckAndWaitEnds, Goto, Is, Inv, TypeInv, Labels
<1>2. PageInv'
  BY ThreadFacts DEF CheckAndWaitEnds, Goto, Is, Inv, TypeInv, PageInv
<1>3. TaskInv'
  BY ThreadFacts DEF CheckAndWaitEnds, Goto, Is, Inv, TypeInv, TaskInv, Submitted
<1>4. CancelInv'
  BY ThreadFacts DEF CheckAndWaitEnds, Goto, Is, Inv, CancelInv
<1>5. NoLostPageWakeup'
  BY ThreadFacts DEF CheckAndWaitEnds, Goto, Is, Inv, TypeInv, PageInv, CancelInv,
     NoLostPageWakeup
<1>6. AnswersAreJustified'
  BY ThreadFacts DEF CheckAndWaitEnds, Goto, Is, Inv, TypeInv, TaskInv,
     AnswersAreJustified
<1> QED
  BY <1>1, <1>2, <1>3, <1>4, <1>5, <1>6 DEF Inv

LEMMA SetReadCacheFlagBeginStep ==
    ASSUME Inv, NEW t \in Threads, SetReadCacheFlagBegin(t), t[1] # "cancel"
    PROVE  Inv'
<1>1. TypeInv'
  BY ThreadFacts DEF SetReadCacheFlagBegin, Goto, Is, Inv, TypeInv, Labels
<1>2. PageInv'
  BY ThreadFacts DEF SetReadCacheFlagBegin, Goto, Is, Inv, TypeInv, PageInv
<1>3. TaskInv'
  BY ThreadFacts DEF SetReadCacheFlagBegin, Goto, Is, Inv, TypeInv, TaskInv, Submitted
<1>4. CancelInv'
  BY ThreadFacts DEF SetReadCacheFlagBegin, Goto, Is, Inv, CancelInv
<1>5. NoLostPageWakeup'
  BY ThreadFacts DEF SetReadCacheFlagBegin, Goto, Is, Inv, TypeInv, PageInv, CancelInv,
     NoLostPageWakeup
<1>6. AnswersAreJustified'
  BY ThreadFacts DEF SetReadCacheFlagBegin, Goto, Is, Inv, TypeInv, TaskInv,
     AnswersAreJustified
<1> QED
  BY <1>1, <1>2, <1>3, <1>4, <1>5, <1>6 DEF Inv

LEMMA SetReadCacheFlagStep ==
    ASSUME Inv, NEW t \in Threads, SetReadCacheFlag(t), t[1] # "cancel"
    PROVE  Inv'
<1>1. TypeInv'
  BY ThreadFacts DEF SetReadCacheFlag, Goto, Is, Inv, TypeInv, Labels
<1>2. PageInv'
  BY ThreadFacts DEF SetReadCacheFlag, Goto, Is, Inv, TypeInv, PageInv
<1>3. TaskInv'
  BY ThreadFacts DEF SetReadCacheFlag, Goto, Is, Inv, TypeInv, TaskInv, Submitted
<1>4. CancelInv'
  BY ThreadFacts DEF SetReadCacheFlag, Goto, Is, Inv, CancelInv
<1>5. NoLostPageWakeup'
  BY ThreadFacts DEF SetReadCacheFlag, Goto, Is, Inv, TypeInv, PageInv, CancelInv,
     NoLostPageWakeup
<1>6. AnswersAreJustified'
  BY ThreadFacts DEF SetReadCacheFlag, Goto, Is, Inv, TypeInv, TaskInv,
     AnswersAreJustified
<1> QED
  BY <1>1, <1>2, <1>3, <1>4, <1>5, <1>6 DEF Inv

LEMMA NotifyPageStep ==
    ASSUME Inv, NEW t \in Threads, NotifyPage(t), t[1] # "cancel"
    PROVE  Inv'
<1>1. TypeInv'
  BY ThreadFacts DEF NotifyPage, Sleepers, Goto, Is, Inv, TypeInv, Labels
<1>2. PageInv'
  BY ThreadFacts DEF NotifyPage, Sleepers, Goto, Is, Inv, TypeInv, PageInv
<1>3. TaskInv'
  BY ThreadFacts DEF NotifyPage, Sleepers, Goto, Is, Inv, TypeInv, TaskInv, Submitted
<1>4. CancelInv'
  BY ThreadFacts DEF NotifyPage, Sleepers, Goto, Is, Inv, CancelInv
<1>5. NoLostPageWakeup'
  BY ThreadFacts DEF NotifyPage, Sleepers, Goto, Is, Inv, TypeInv, PageInv, CancelInv,
     NoLostPageWakeup
<1>6. AnswersAreJustified'
  BY ThreadFacts DEF NotifyPage, Sleepers, Goto, Is, Inv, TypeInv, TaskInv,
     AnswersAreJustified
<1> QED
  BY <1>1, <1>2, <1>3, <1>4, <1>5, <1>6 DEF Inv

LEMMA CloudReadHelperStep ==
    ASSUME Inv, NEW r \in Readers, CloudReadHelper(r)
    PROVE  Inv'
<1>1. TypeInv'
  BY ThreadFacts DEF CloudReadHelper, Goto, Is, Inv, TypeInv, Labels
<1>2. PageInv'
  BY ThreadFacts DEF CloudReadHelper, Goto, Is, Inv, TypeInv, PageInv
<1>3. TaskInv'
  BY ThreadFacts DEF CloudReadHelper, Goto, Is, Inv, TypeInv, TaskInv, Submitted
<1>4. CancelInv'
  BY ThreadFacts DEF CloudReadHelper, Goto, Is, Inv, CancelInv
<1>5. NoLostPageWakeup'
  BY ThreadFacts DEF CloudReadHelper, Goto, Is, Inv, TypeInv, PageInv, CancelInv,
     NoLostPageWakeup
<1>6. AnswersAreJustified'
  BY ThreadFacts DEF CloudReadHelper, Goto, Is, Inv, TypeInv, TaskInv, AnswersAreJustified
<1> QED
  BY <1>1, <1>2, <1>3, <1>4, <1>5, <1>6 DEF Inv

LEMMA DoReadSliceFailsStep ==
    ASSUME Inv, NEW r \in Readers, DoReadSliceFails(r)
    PROVE  Inv'
<1>1. TypeInv'
  BY ThreadFacts DEF DoReadSliceFails, Goto, Is, Inv, TypeInv, Labels
<1>2. PageInv'
  BY ThreadFacts DEF DoReadSliceFails, Goto, Is, Inv, TypeInv, PageInv
<1>3. TaskInv'
  BY ThreadFacts DEF DoReadSliceFails, Goto, Is, Inv, TypeInv, TaskInv, Submitted
<1>4. CancelInv'
  BY ThreadFacts DEF DoReadSliceFails, Goto, Is, Inv, CancelInv
<1>5. NoLostPageWakeup'
  BY ThreadFacts DEF DoReadSliceFails, Goto, Is, Inv, TypeInv, PageInv, CancelInv,
     NoLostPageWakeup
<1>6. AnswersAreJustified'
  BY ThreadFacts DEF DoReadSliceFails, Goto, Is, Inv, TypeInv, TaskInv,
     AnswersAreJustified
<1> QED
  BY <1>1, <1>2, <1>3, <1>4, <1>5, <1>6 DEF Inv

LEMMA DoReadSliceStep ==
    ASSUME Inv, NEW r \in Readers, DoReadSlice(r)
    PROVE  Inv'
<1>1. TypeInv'
  BY ThreadFacts DEF DoReadSlice, Goto, Is, Inv, TypeInv, Labels
<1>2. PageInv'
  BY ThreadFacts DEF DoReadSlice, Goto, Is, Inv, TypeInv, PageInv
<1>3. TaskInv'
  BY ThreadFacts DEF DoReadSlice, Goto, Is, Inv, TypeInv, TaskInv, Submitted
<1>4. CancelInv'
  BY ThreadFacts DEF DoReadSlice, Goto, Is, Inv, CancelInv
<1>5. NoLostPageWakeup'
  BY ThreadFacts DEF DoReadSlice, Goto, Is, Inv, TypeInv, PageInv, CancelInv,
     NoLostPageWakeup, TaskInv, Submitted
<1>6. AnswersAreJustified'
  BY ThreadFacts DEF DoReadSlice, Goto, Is, Inv, TypeInv, TaskInv, AnswersAreJustified,
     Submitted
<1> QED
  BY <1>1, <1>2, <1>3, <1>4, <1>5, <1>6 DEF Inv

LEMMA InsertReadArgsStep ==
    ASSUME Inv, NEW r \in Readers, InsertReadArgs(r)
    PROVE  Inv'
<1>1. TypeInv'
  BY ThreadFacts DEF InsertReadArgs, Goto, Is, Inv, TypeInv, Labels
<1>2. PageInv'
  BY ThreadFacts DEF InsertReadArgs, Goto, Is, Inv, TypeInv, PageInv
<1>3. TaskInv'
  BY ThreadFacts DEF InsertReadArgs, Goto, Is, Inv, TypeInv, TaskInv, Submitted
<1>4. CancelInv'
  BY ThreadFacts DEF InsertReadArgs, Goto, Is, Inv, CancelInv
<1>5. NoLostPageWakeup'
  BY ThreadFacts DEF InsertReadArgs, Goto, Is, Inv, TypeInv, PageInv, CancelInv,
     NoLostPageWakeup
<1>6. AnswersAreJustified'
  BY ThreadFacts DEF InsertReadArgs, Goto, Is, Inv, TypeInv, TaskInv, AnswersAreJustified
<1> QED
  BY <1>1, <1>2, <1>3, <1>4, <1>5, <1>6 DEF Inv

LEMMA WaitDataStep ==
    ASSUME Inv, NEW r \in Readers, WaitData(r)
    PROVE  Inv'
<1>1. TypeInv'
  BY ThreadFacts DEF WaitData, Answer, Goto, Is, Inv, TypeInv, Labels
<1>2. PageInv'
  BY ThreadFacts DEF WaitData, Answer, Goto, Is, Inv, TypeInv, PageInv
<1>3. TaskInv'
  BY ThreadFacts DEF WaitData, Answer, Goto, Is, Inv, TypeInv, TaskInv, Submitted
<1>4. CancelInv'
  BY ThreadFacts DEF WaitData, Answer, Goto, Is, Inv, CancelInv
<1>5. NoLostPageWakeup'
  BY ThreadFacts DEF WaitData, Answer, Goto, Is, Inv, TypeInv, PageInv, CancelInv,
     NoLostPageWakeup
<1>6. AnswersAreJustified'
  BY ThreadFacts DEF WaitData, Answer, Goto, Is, Inv, TypeInv, TaskInv,
     AnswersAreJustified
<1> QED
  BY <1>1, <1>2, <1>3, <1>4, <1>5, <1>6 DEF Inv

LEMMA WaitDataWakesStep ==
    ASSUME Inv, NEW r \in Readers, WaitDataWakes(r)
    PROVE  Inv'
<1>1. TypeInv'
  BY ThreadFacts DEF WaitDataWakes, Answer, Goto, Is, Inv, TypeInv, Labels
<1>2. PageInv'
  BY ThreadFacts DEF WaitDataWakes, Answer, Goto, Is, Inv, TypeInv, PageInv
<1>3. TaskInv'
  BY ThreadFacts DEF WaitDataWakes, Answer, Goto, Is, Inv, TypeInv, TaskInv, Submitted
<1>4. CancelInv'
  BY ThreadFacts DEF WaitDataWakes, Answer, Goto, Is, Inv, CancelInv
<1>5. NoLostPageWakeup'
  BY ThreadFacts DEF WaitDataWakes, Answer, Goto, Is, Inv, TypeInv, PageInv, CancelInv,
     NoLostPageWakeup
<1>6. AnswersAreJustified'
  BY ThreadFacts DEF WaitDataWakes, Answer, Goto, Is, Inv, TypeInv, TaskInv,
     AnswersAreJustified
<1> QED
  BY <1>1, <1>2, <1>3, <1>4, <1>5, <1>6 DEF Inv

LEMMA EraseReadArgsStep ==
    ASSUME Inv, NEW r \in Readers, EraseReadArgs(r)
    PROVE  Inv'
<1>1. TypeInv'
  BY ThreadFacts DEF EraseReadArgs, Goto, Is, Inv, TypeInv, Labels
<1>2. PageInv'
  BY ThreadFacts DEF EraseReadArgs, Goto, Is, Inv, TypeInv, PageInv
<1>3. TaskInv'
  BY ThreadFacts DEF EraseReadArgs, Goto, Is, Inv, TypeInv, TaskInv, Submitted
<1>4. CancelInv'
  BY ThreadFacts DEF EraseReadArgs, Goto, Is, Inv, CancelInv
<1>5. NoLostPageWakeup'
  BY ThreadFacts DEF EraseReadArgs, Goto, Is, Inv, TypeInv, PageInv, CancelInv,
     NoLostPageWakeup
<1>6. AnswersAreJustified'
  BY ThreadFacts DEF EraseReadArgs, Goto, Is, Inv, TypeInv, TaskInv, AnswersAreJustified
<1> QED
  BY <1>1, <1>2, <1>3, <1>4, <1>5, <1>6 DEF Inv

LEMMA CloudReadOnCloudFileStep ==
    ASSUME Inv, NEW r \in Readers, CloudReadOnCloudFile(r)
    PROVE  Inv'
<1>1. TypeInv'
  BY ThreadFacts DEF CloudReadOnCloudFile, Goto, Is, Inv, TypeInv, Labels
<1>2. PageInv'
  BY ThreadFacts DEF CloudReadOnCloudFile, Goto, Is, Inv, TypeInv, PageInv
<1>3. TaskInv'
  BY ThreadFacts DEF CloudReadOnCloudFile, Goto, Is, Inv, TypeInv, TaskInv, Submitted
<1>4. CancelInv'
  BY ThreadFacts DEF CloudReadOnCloudFile, Goto, Is, Inv, CancelInv
<1>5. NoLostPageWakeup'
  BY ThreadFacts DEF CloudReadOnCloudFile, Goto, Is, Inv, TypeInv, PageInv, CancelInv,
     NoLostPageWakeup
<1>6. AnswersAreJustified'
  BY ThreadFacts DEF CloudReadOnCloudFile, Goto, Is, Inv, TypeInv, TaskInv,
     AnswersAreJustified
<1> QED
  BY <1>1, <1>2, <1>3, <1>4, <1>5, <1>6 DEF Inv

LEMMA TaskEndsStep ==
    ASSUME Inv, NEW r \in Readers, TaskEnds(r)
    PROVE  Inv'
<1>1. TypeInv'
  BY ThreadFacts DEF TaskEnds, Goto, Is, Inv, TypeInv, Labels
<1>2. PageInv'
  BY ThreadFacts DEF TaskEnds, Goto, Is, Inv, TypeInv, PageInv
<1>3. TaskInv'
  BY ThreadFacts DEF TaskEnds, Goto, Is, Inv, TypeInv, TaskInv, Submitted
<1>4. CancelInv'
  BY ThreadFacts DEF TaskEnds, Goto, Is, Inv, CancelInv
<1>5. NoLostPageWakeup'
  BY ThreadFacts DEF TaskEnds, Goto, Is, Inv, TypeInv, PageInv, CancelInv,
     NoLostPageWakeup
<1>6. AnswersAreJustified'
  BY ThreadFacts DEF TaskEnds, Goto, Is, Inv, TypeInv, TaskInv, AnswersAreJustified
<1> QED
  BY <1>1, <1>2, <1>3, <1>4, <1>5, <1>6 DEF Inv

LEMMA ReadFinishedStep ==
    ASSUME Inv, NEW r \in Readers, ReadFinished(r)
    PROVE  Inv'
<1>1. TypeInv'
  BY ThreadFacts DEF ReadFinished, Goto, Is, Inv, TypeInv, Labels
<1>2. PageInv'
  BY ThreadFacts DEF ReadFinished, Goto, Is, Inv, TypeInv, PageInv
<1>3. TaskInv'
  BY ThreadFacts DEF ReadFinished, Goto, Is, Inv, TypeInv, TaskInv, Submitted
<1>4. CancelInv'
  BY ThreadFacts DEF ReadFinished, Goto, Is, Inv, CancelInv
<1>5. NoLostPageWakeup'
  BY ThreadFacts DEF ReadFinished, Goto, Is, Inv, TypeInv, PageInv, CancelInv,
     NoLostPageWakeup
<1>6. AnswersAreJustified'
  BY ThreadFacts DEF ReadFinished, Goto, Is, Inv, TypeInv, TaskInv, AnswersAreJustified
<1> QED
  BY <1>1, <1>2, <1>3, <1>4, <1>5, <1>6 DEF Inv

LEMMA CancelReadStep ==
    ASSUME Inv, NEW r \in Cancellers, CancelRead(r)
    PROVE  Inv'
<1>1. TypeInv'
  BY ThreadFacts DEF CancelRead, Goto, Is, Inv, TypeInv, Labels
<1>2. PageInv'
  BY ThreadFacts DEF CancelRead, Goto, Is, Inv, TypeInv, PageInv
<1>3. TaskInv'
  BY ThreadFacts DEF CancelRead, Goto, Is, Inv, TypeInv, TaskInv, Submitted
<1>4. CancelInv'
  BY ThreadFacts DEF CancelRead, Goto, Is, Inv, CancelInv
<1>5. NoLostPageWakeup'
  BY ThreadFacts DEF CancelRead, Goto, Is, Inv, TypeInv, PageInv, CancelInv,
     NoLostPageWakeup
<1>6. AnswersAreJustified'
  BY ThreadFacts DEF CancelRead, Goto, Is, Inv, TypeInv, TaskInv, AnswersAreJustified
<1> QED
  BY <1>1, <1>2, <1>3, <1>4, <1>5, <1>6 DEF Inv

LEMMA CancelStatusStep ==
    ASSUME Inv, NEW r \in Cancellers, CancelStatus(r)
    PROVE  Inv'
<1>1. TypeInv'
  BY ThreadFacts DEF CancelStatus, Goto, Is, Inv, TypeInv, Labels
<1>2. PageInv'
  BY ThreadFacts DEF CancelStatus, Goto, Is, Inv, TypeInv, PageInv
<1>3. TaskInv'
  BY ThreadFacts DEF CancelStatus, Goto, Is, Inv, TypeInv, TaskInv, Submitted
<1>4. CancelInv'
  BY ThreadFacts DEF CancelStatus, Goto, Is, Inv, CancelInv
<1>5. NoLostPageWakeup'
  BY ThreadFacts DEF CancelStatus, Goto, Is, Inv, TypeInv, PageInv, CancelInv,
     NoLostPageWakeup
<1>6. AnswersAreJustified'
  BY ThreadFacts DEF CancelStatus, Goto, Is, Inv, TypeInv, TaskInv, AnswersAreJustified
<1> QED
  BY <1>1, <1>2, <1>3, <1>4, <1>5, <1>6 DEF Inv

LEMMA CancelPagesBeginStep ==
    ASSUME Inv, NEW r \in Cancellers, CancelPagesBegin(r)
    PROVE  Inv'
<1>1. TypeInv'
  BY ThreadFacts DEF CancelPagesBegin, Goto, Is, Inv, TypeInv, Labels
<1>2. PageInv'
  BY ThreadFacts DEF CancelPagesBegin, Goto, Is, Inv, TypeInv, PageInv
<1>3. TaskInv'
  BY ThreadFacts DEF CancelPagesBegin, Goto, Is, Inv, TypeInv, TaskInv, Submitted
<1>4. CancelInv'
  BY ThreadFacts DEF CancelPagesBegin, Goto, Is, Inv, CancelInv
<1>5. NoLostPageWakeup'
  BY ThreadFacts DEF CancelPagesBegin, Goto, Is, Inv, TypeInv, PageInv, CancelInv,
     NoLostPageWakeup
<1>6. AnswersAreJustified'
  BY ThreadFacts DEF CancelPagesBegin, Goto, Is, Inv, TypeInv, TaskInv,
     AnswersAreJustified
<1> QED
  BY <1>1, <1>2, <1>3, <1>4, <1>5, <1>6 DEF Inv

LEMMA CancelPagesStep ==
    ASSUME Inv, NEW r \in Cancellers, CancelPages(r)
    PROVE  Inv'
<1>1. TypeInv'
  BY ThreadFacts DEF CancelPages, Sleepers, Goto, Is, Inv, TypeInv, Labels
<1>2. PageInv'
  BY ThreadFacts DEF CancelPages, Sleepers, Goto, Is, Inv, TypeInv, PageInv
<1>3. TaskInv'
  BY ThreadFacts DEF CancelPages, Sleepers, Goto, Is, Inv, TypeInv, TaskInv, Submitted
<1>4. CancelInv'
  BY ThreadFacts DEF CancelPages, Sleepers, Goto, Is, Inv, CancelInv
<1>5. NoLostPageWakeup'
  BY ThreadFacts DEF CancelPages, Sleepers, Goto, Is, Inv, TypeInv, PageInv, CancelInv,
     NoLostPageWakeup
<1>6. AnswersAreJustified'
  BY ThreadFacts DEF CancelPages, Sleepers, Goto, Is, Inv, TypeInv, TaskInv,
     AnswersAreJustified
<1> QED
  BY <1>1, <1>2, <1>3, <1>4, <1>5, <1>6 DEF Inv

LEMMA ResetReadStep ==
    ASSUME Inv, NEW r \in Cancellers, ResetRead(r)
    PROVE  Inv'
<1>1. TypeInv'
  BY ThreadFacts DEF ResetRead, Goto, Is, Inv, TypeInv, Labels
<1>2. PageInv'
  BY ThreadFacts DEF ResetRead, Goto, Is, Inv, TypeInv, PageInv
<1>3. TaskInv'
  BY ThreadFacts DEF ResetRead, Goto, Is, Inv, TypeInv, TaskInv, Submitted
<1>4. CancelInv'
  BY ThreadFacts DEF ResetRead, Goto, Is, Inv, CancelInv
<1>5. NoLostPageWakeup'
  BY ThreadFacts DEF ResetRead, Goto, Is, Inv, TypeInv, PageInv, CancelInv,
     NoLostPageWakeup
<1>6. AnswersAreJustified'
  BY ThreadFacts DEF ResetRead, Goto, Is, Inv, TypeInv, TaskInv, AnswersAreJustified
<1> QED
  BY <1>1, <1>2, <1>3, <1>4, <1>5, <1>6 DEF Inv

(* The invariant is inductive.                                             *)
LEMMA InitInv == Init => Inv
<1> SUFFICES ASSUME Init PROVE Inv
  OBVIOUS
<1>1. \A t \in Threads : pc[t] = "none" \/ pc[t] = "begin"
  BY DEF Init
<1>2. \A r \in Readers : pc[Task(r)] = "none"
  BY ThreadFacts DEF Init
<1>3. TypeInv
  BY DEF Init, TypeInv, Labels
<1>4. PageInv /\ CancelInv
  BY <1>1 DEF Init, PageInv, CancelInv
<1>5. TaskInv
  BY <1>2 DEF Init, TaskInv
<1>6. NoLostPageWakeup /\ AnswersAreJustified
  BY <1>1, ThreadFacts DEF Init, Is, NoLostPageWakeup, AnswersAreJustified
<1> QED
  BY <1>3, <1>4, <1>5, <1>6 DEF Inv

LEMMA CheckAndWaitInv ==
    ASSUME Inv, NEW t \in Threads, t[1] # "cancel", CheckAndWait(t) \/ FlagPage(t)
    PROVE  Inv'
BY IsReadAheadBeginStep, IsReadAheadStep, WaitBeginStep, WaitPredicateStep, WakeUpStep,
   CheckAndWaitEndsStep, SetReadCacheFlagBeginStep, SetReadCacheFlagStep, NotifyPageStep
   DEF CheckAndWait, FlagPage

LEMMA ReaderInv ==
    ASSUME Inv, NEW r \in Readers, RequestStep(r) \/ TaskStep(r)
    PROVE  Inv'
<1>1. /\ Request(r) \in Threads /\ Request(r)[1] # "cancel"
      /\ Task(r) \in Threads /\ Task(r)[1] # "cancel"
  BY ThreadFacts
<1>2. CASE RequestStep(r)
  BY <1>1, <1>2, CheckAndWaitInv, CloudReadHelperStep, DoReadSliceFailsStep,
     DoReadSliceStep, InsertReadArgsStep, WaitDataStep, WaitDataWakesStep,
     EraseReadArgsStep DEF RequestStep
<1>3. CASE TaskStep(r)
  BY <1>1, <1>3, CheckAndWaitInv, CloudReadOnCloudFileStep, TaskEndsStep, ReadFinishedStep
     DEF TaskStep
<1> QED
  BY <1>2, <1>3

LEMMA CancelInvKept ==
    ASSUME Inv, NEW r \in Cancellers, CancelStep(r) \/ ResetRead(r)
    PROVE  Inv'
BY CancelReadStep, CancelStatusStep, CancelPagesBeginStep, CancelPagesStep, ResetReadStep
   DEF CancelStep

(* The invariant holds of every behaviour, with any readers and any of     *)
(* them cancelling.                                                        *)
THEOREM ReadInvariance == Spec => []Inv
<1>1. ASSUME Inv, UNCHANGED vars PROVE Inv'
  BY <1>1 DEF vars, Inv, TypeInv, PageInv, TaskInv, CancelInv, NoLostPageWakeup,
     AnswersAreJustified, Is
<1>2. Inv /\ [Next]_vars => Inv'
  BY <1>1, ReaderInv, CancelInvKept DEF Next
<1> QED
  BY InitInv, <1>2, PTL DEF Spec

(* A thread that sleeps although its page is up to date, its process has   *)
(* cancelled or its download has an answer has been notified, or the       *)
(* thread that will notify it is on its way: no notification falls between *)
(* a look at the predicate and the sleep, for any number of processes.     *)
THEOREM ReadsAreWokenThm == Spec => []ReadsAreWoken
<1>1. Inv => ReadsAreWoken
  BY DEF Inv, ReadsAreWoken
<1> QED
  BY ReadInvariance, <1>1, PTL

-----------------------------------------------------------------------------
(***************************************************************************)
(* Migration: no change is lost, for any number of applications, threads   *)
(* and changes, and however often the daemon restarts.                     *)
(***************************************************************************)
CONSTANTS Bundles, CopyThreads, MaxChanges, MaxFaults

VARIABLES
    migrating, migrated, rdbDir, state, checked, copies, started, opened, old, new, made,
    stray, faults

Migration == INSTANCE DbMigration WITH Threads <- CopyThreads

MigrationTypeInv ==
    /\ migrating \subseteq Bundles /\ migrated \subseteq Bundles
    /\ state \in [Bundles -> {"none", "pending", "completed"}]
    /\ copies \in [Bundles -> {"none", "queued", "running", "copied", "ending", "ended"}]
    /\ opened \in [Bundles -> {"none", "old", "new"}]
    /\ old \in [Bundles -> Int] /\ new \in [Bundles -> Int] /\ made \in [Bundles -> Int]

(* The markers of a bundle tell where its rows are.  While .migrating is   *)
(* there the store is closed; a copy that has been looked at is complete   *)
(* and nobody writes to the old database any more; and .migrated is there  *)
(* exactly when the new database is the complete one.                      *)
MarkersTell(b) ==
    /\ copies[b] # "none" => started /\ b \notin migrated
    /\ opened[b] # "none" => started
    /\ b \in migrating => state[b] # "completed" /\ opened[b] = "none" /\ b \notin migrated
    /\ opened[b] = "new" => b \in migrated
    /\ opened[b] = "old" => b \notin migrated
    /\ copies[b] \in {"ending", "ended"} => opened[b] = "none"
    /\ copies[b] = "ended" => b \notin migrating

RowsAreThere(b) ==
    /\ IF b \in migrated THEN new[b] = made[b] ELSE old[b] = made[b]
    /\ copies[b] \in {"copied", "ending", "ended"} /\ opened[b] = "none" => new[b] = made[b]

StageInv == \A b \in Bundles : b \notin stray => MarkersTell(b) /\ RowsAreThere(b)
MigrationInv == MigrationTypeInv /\ StageInv

LEMMA MigrationInitInv == Migration!Init => MigrationInv
<1> SUFFICES ASSUME Migration!Init PROVE MigrationInv
  OBVIOUS
<1>1. MigrationTypeInv
  BY DEF Migration!Init, MigrationTypeInv
<1>2. ASSUME NEW b \in Bundles PROVE MarkersTell(b) /\ RowsAreThere(b)
  BY DEF Migration!Init, MarkersTell, RowsAreThere
<1> QED
  BY <1>1, <1>2 DEF MigrationInv, StageInv

LEMMA TypeInvKept ==
    ASSUME MigrationTypeInv, [Migration!Next]_Migration!vars
    PROVE  MigrationTypeInv'
<1>1. CASE UNCHANGED Migration!vars
  BY <1>1 DEF Migration!vars, MigrationTypeInv
<1>2. CASE Migration!StartAsyncMigration
  BY <1>2 DEF Migration!StartAsyncMigration, Migration!CreateAppMigratingMarkers, MigrationTypeInv
<1>3. CASE Migration!Restart
  BY <1>3 DEF Migration!Restart, MigrationTypeInv
<1>4. ASSUME NEW b \in Bundles,
             Migration!CopyBegins(b) \/ Migration!CopyDatabase(b) \/
               Migration!OnAppMigrationFailed(b) \/ Migration!LookForMarker(b)
             \/ Migration!OnAppMigrationSuccess(b) \/ Migration!CreateMigratedMarker(b)
      PROVE  MigrationTypeInv'
  BY <1>4 DEF Migration!CopyBegins, Migration!CopyDatabase, Migration!OnAppMigrationFailed,
     Migration!LookForMarker, Migration!OnAppMigrationSuccess, Migration!CreateMigratedMarker,
     Migration!Complete, MigrationTypeInv
<1>5. ASSUME NEW b \in Bundles, Migration!RdbInit(b) \/ Migration!RdbInitWithoutMigration(b)
      PROVE  MigrationTypeInv'
  BY <1>5 DEF Migration!RdbInit, Migration!RdbInitWithoutMigration, Migration!SelectDbDir,
     Migration!OpensOld, MigrationTypeInv
<1>6. ASSUME NEW b \in Bundles, Migration!Change(b) PROVE MigrationTypeInv'
  BY <1>6 DEF Migration!Change, MigrationTypeInv
<1> QED
  BY <1>1, <1>2, <1>3, <1>4, <1>5, <1>6 DEF Migration!Next

(* A step about one application leaves the others alone.                   *)
OthersStay(b) ==
    /\ stray \subseteq stray' /\ started' = started
    /\ \A c \in Bundles \ {b} :
         /\ c \in migrating' <=> c \in migrating
         /\ c \in migrated' <=> c \in migrated
         /\ copies'[c] = copies[c] /\ state'[c] = state[c] /\ opened'[c] = opened[c]
         /\ old'[c] = old[c] /\ new'[c] = new[c] /\ made'[c] = made[c]

LEMMA StagesKept ==
    ASSUME StageInv, NEW b \in Bundles, OthersStay(b),
           b \notin stray' => (MarkersTell(b) /\ RowsAreThere(b))'
    PROVE  StageInv'
<1>1. ASSUME NEW c \in Bundles, c # b, c \notin stray'
      PROVE  (MarkersTell(c) /\ RowsAreThere(c))'
  BY <1>1 DEF StageInv, OthersStay, MarkersTell, RowsAreThere
<1> QED
  BY <1>1 DEF StageInv

(* A start marks only bundles with neither marker, while no store is open. *)
LEMMA StartKeepsStages ==
    ASSUME MigrationInv, Migration!StartAsyncMigration
    PROVE  StageInv'
<1> DEFINE todo == {b \in Bundles : b \notin migrating \cup migrated}
<1>1. /\ ~started /\ started' /\ UNCHANGED <<migrated, opened, old, new, made, stray>>
  BY DEF Migration!StartAsyncMigration
<1> SUFFICES ASSUME NEW b \in Bundles, b \notin stray
             PROVE  (MarkersTell(b) /\ RowsAreThere(b))'
  BY <1>1 DEF StageInv
<1>2. MarkersTell(b) /\ RowsAreThere(b)
  BY DEF MigrationInv, StageInv
<1>3. copies[b] = "none" /\ opened[b] = "none"
  BY <1>1, <1>2 DEF MarkersTell
<1>4. CASE UNCHANGED <<migrating, state, copies>>
  BY <1>1, <1>2, <1>4 DEF MarkersTell, RowsAreThere
<1>5. ASSUME NEW bs \in SUBSET todo, Migration!CreateAppMigratingMarkers(bs),
             copies' = [c \in Bundles |-> IF c \in migrating' THEN "queued" ELSE copies[c]]
      PROVE  (MarkersTell(b) /\ RowsAreThere(b))'
  <2>1. /\ migrating' = migrating \cup bs
        /\ state'[b] = IF b \in bs THEN "pending" ELSE state[b]
        /\ copies'[b] = IF b \in migrating' THEN "queued" ELSE "none"
    BY <1>3, <1>5 DEF Migration!CreateAppMigratingMarkers
  <2>2. b \in migrating' => b \notin migrated
    BY <1>2, <2>1 DEF MarkersTell
  <2> QED
    BY <1>1, <1>2, <1>3, <2>1, <2>2 DEF MarkersTell, RowsAreThere
<1> QED
  BY <1>4, <1>5 DEF Migration!StartAsyncMigration

(* A crash at any step leaves the markers and the databases as they are.   *)
LEMMA RestartKeepsStages ==
    ASSUME MigrationInv, Migration!Restart
    PROVE  StageInv'
<1> SUFFICES ASSUME NEW b \in Bundles, b \notin stray
             PROVE  (MarkersTell(b) /\ RowsAreThere(b))'
  BY DEF StageInv, Migration!Restart
<1>1. MarkersTell(b) /\ RowsAreThere(b)
  BY DEF MigrationInv, StageInv
<1> QED
  BY <1>1 DEF Migration!Restart, MarkersTell, RowsAreThere

LEMMA CopyKeepsStages ==
    ASSUME MigrationInv, NEW b \in Bundles,
           Migration!CopyBegins(b) \/ Migration!CopyDatabase(b) \/
             Migration!OnAppMigrationFailed(b) \/ Migration!LookForMarker(b)
           \/ Migration!OnAppMigrationSuccess(b) \/ Migration!CreateMigratedMarker(b)
    PROVE  StageInv'
<1>1. OthersStay(b)
  BY DEF Migration!CopyBegins, Migration!CopyDatabase, Migration!OnAppMigrationFailed,
     Migration!LookForMarker, Migration!OnAppMigrationSuccess, Migration!CreateMigratedMarker,
     Migration!Complete, MigrationInv, MigrationTypeInv, OthersStay
<1>2. ASSUME b \notin stray' PROVE (MarkersTell(b) /\ RowsAreThere(b))'
  <2>1. MarkersTell(b) /\ RowsAreThere(b)
    BY <1>1, <1>2 DEF OthersStay, MigrationInv, StageInv
  <2>2. CASE Migration!CopyBegins(b) \/ Migration!CopyDatabase(b)
    BY <2>1, <2>2 DEF Migration!CopyBegins, Migration!CopyDatabase, MigrationInv,
       MigrationTypeInv, MarkersTell, RowsAreThere
  <2>3. CASE Migration!LookForMarker(b)
    BY <2>1, <2>3 DEF Migration!LookForMarker, MigrationInv, MigrationTypeInv, MarkersTell,
       RowsAreThere
  <2>4. CASE Migration!OnAppMigrationSuccess(b)
    BY <2>1, <2>4 DEF Migration!OnAppMigrationSuccess, MigrationInv, MigrationTypeInv,
       MarkersTell, RowsAreThere
  <2>5. CASE Migration!CreateMigratedMarker(b)
    BY <2>1, <2>5 DEF Migration!CreateMigratedMarker, Migration!Complete, MigrationInv,
       MigrationTypeInv, MarkersTell, RowsAreThere
  <2>6. CASE Migration!OnAppMigrationFailed(b)
    BY <2>1, <2>6 DEF Migration!OnAppMigrationFailed, Migration!Complete, MigrationInv,
       MigrationTypeInv, MarkersTell, RowsAreThere
  <2> QED
    BY <2>2, <2>3, <2>4, <2>5, <2>6
<1> QED
  BY <1>1, <1>2, StagesKept DEF MigrationInv

(* A store is opened where its rows are, or the bundle has gone astray.    *)
LEMMA OpenKeepsStages ==
    ASSUME MigrationInv, NEW b \in Bundles, Migration!RdbInit(b) \/
             Migration!RdbInitWithoutMigration(b)
    PROVE  StageInv'
<1>1. OthersStay(b)
  BY DEF Migration!RdbInit, Migration!RdbInitWithoutMigration, Migration!SelectDbDir,
     Migration!OpensOld, MigrationInv, MigrationTypeInv, OthersStay
<1>2. ASSUME b \notin stray' PROVE (MarkersTell(b) /\ RowsAreThere(b))'
  <2>1. MarkersTell(b) /\ RowsAreThere(b)
    BY <1>1, <1>2 DEF OthersStay, MigrationInv, StageInv
  <2>2. /\ started' = started /\ started /\ copies' = copies /\ state' = state
        /\ UNCHANGED <<old, new, made>> /\ b \notin migrating' /\ opened[b] = "none"
    BY <2>1 DEF Migration!RdbInit, Migration!RdbInitWithoutMigration, Migration!MigrationOver,
       MarkersTell
  <2>3. \/ b \in migrated /\ opened'[b] = "new" /\ migrated' = migrated
        \/ /\ b \notin migrated /\ opened'[b] = "old" /\ migrated' = migrated
           /\ copies[b] \notin {"ending", "ended"}
    BY <1>2, <2>1, <2>2 DEF Migration!RdbInit, Migration!RdbInitWithoutMigration,
       Migration!SelectDbDir, Migration!OpensOld, MigrationInv, MigrationTypeInv, MarkersTell
  <2> QED
    BY <2>1, <2>2, <2>3 DEF MarkersTell, RowsAreThere
<1> QED
  BY <1>1, <1>2, StagesKept DEF MigrationInv

LEMMA ChangeKeepsStages ==
    ASSUME MigrationInv, NEW b \in Bundles, Migration!Change(b)
    PROVE  StageInv'
<1>1. OthersStay(b)
  BY DEF Migration!Change, MigrationInv, MigrationTypeInv, OthersStay
<1>2. ASSUME b \notin stray' PROVE (MarkersTell(b) /\ RowsAreThere(b))'
  <2>1. MarkersTell(b) /\ RowsAreThere(b)
    BY <1>1, <1>2 DEF OthersStay, MigrationInv, StageInv
  <2>2. MarkersTell(b)'
    BY <2>1 DEF Migration!Change, MarkersTell
  <2>3. RowsAreThere(b)'
    BY <2>1 DEF Migration!Change, MigrationInv, MigrationTypeInv, MarkersTell, RowsAreThere
  <2> QED
    BY <2>2, <2>3
<1> QED
  BY <1>1, <1>2, StagesKept DEF MigrationInv

(* Where the rows of every application are, in every behaviour.            *)
THEOREM StagesThm == Migration!Spec => []MigrationInv
<1>1. ASSUME MigrationInv, [Migration!Next]_Migration!vars PROVE MigrationInv'
  <2>1. MigrationTypeInv'
    BY <1>1, TypeInvKept DEF MigrationInv
  <2>2. CASE UNCHANGED Migration!vars
    <3>1. StageInv'
      BY <1>1, <2>2 DEF Migration!vars, MigrationInv, StageInv, MarkersTell, RowsAreThere
    <3> QED
      BY <2>1, <3>1 DEF MigrationInv
  <2>3. CASE Migration!Next
    <3>1. StageInv'
      BY <1>1, <2>3, StartKeepsStages, RestartKeepsStages, CopyKeepsStages,
         OpenKeepsStages, ChangeKeepsStages DEF Migration!Next
    <3> QED
      BY <2>1, <3>1 DEF MigrationInv
  <2> QED
    BY <1>1, <2>2, <2>3
<1> QED
  BY MigrationInitInv, <1>1, PTL DEF Migration!Spec

(* The database an application opens holds every change it has made,       *)
(* whatever fails and whenever the daemon dies, unless it was opened in    *)
(* one of the two gaps: before the directory of its copy was there, or     *)
(* between the look at .migrating and the creation of .migrated.  While    *)
(* .migrating is there WaitForAppMigration keeps the store closed, and who *)
(* gives up waiting removes it, so that the copy is not taken.             *)
THEOREM NoChangeIsLostThm == Migration!Spec => []Migration!NoChangeIsLost
<1>1. MigrationInv => Migration!NoChangeIsLost
  BY DEF MigrationInv, MigrationTypeInv, StageInv, MarkersTell, RowsAreThere,
     Migration!NoChangeIsLost, Migration!Current
<1> QED
  BY StagesThm, <1>1, PTL
=============================================================================
