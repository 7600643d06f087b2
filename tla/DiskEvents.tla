------------------------------- MODULE DiskEvents -------------------------------
(***************************************************************************)
(* From changes of files to the change log: the disk monitor's fanotify    *)
(* events, the pairing of the two halves of a move, the dentry file of a   *)
(* sync folder, its record identifiers, and the log.                       *)
(*   services/clouddiskservice/monitor/src/disk_monitor.cpp                *)
(*   services/clouddiskservice/sync_folder/src/cloud_disk_service_logfile  *)
(*                                                                         *)
(* Events are handled some time after the change, and every handler looks  *)
(* at the file as it is then.  Out stands for every place outside the sync *)
(* folder, another sync folder included.                                   *)
(***************************************************************************)
EXTENDS Integers, Sequences, FiniteSets

CONSTANTS
    Names,        \* names in the sync folder
    OldNames,     \* names of files that were there before the monitor
    MaxOps        \* bound on the changes of files

VARIABLES
    at,           \* at[n]: the file under a name, 0 for none
    nextFile,
    queue,        \* events: [ops, name], ops is the mask
    old,          \* oldEventInfo_: the name of a MOVED_FROM, or None
    modified,     \* modifiedFiles_
    dent,         \* the dentry file: [name -> record id, or Absent]
    renameRec,    \* renameRecordId_
    nextRec,
    log,          \* log blocks: [op, name, rec]
    scan,         \* names the warm-up has still to look at
    statted,      \* name the warm-up has found and not logged yet, or None
    entered,      \* the record it has made for it, or Absent
    slips,        \* "merged": fanotify added a creation, deletion or move to an
                  \* earlier event; "crossed": an event was handled of the name
                  \* that the warm-up was at
    ops

vars == <<at, nextFile, queue, old, modified, dent, renameRec, nextRec, log, scan,
          statted, entered, slips, ops>>
tables == <<dent, renameRec, nextRec, log>>
warmup == <<scan, statted, entered>>

None == "none"
Out == "out"
Absent == -1
Known(n) == dent[n] # Absent
Event(op, n) == [ops |-> {op}, name |-> n]

Init ==
    /\ \E f \in [OldNames -> 1..Cardinality(OldNames)] :
          /\ \A m, n \in OldNames : f[m] = f[n] => m = n
          /\ at = [n \in Names |-> IF n \in OldNames THEN f[n] ELSE 0]
    /\ nextFile = Cardinality(OldNames) + 1
    /\ queue = << >> /\ old = None /\ modified = {}
    /\ dent = [n \in Names |-> Absent] /\ renameRec = 0 /\ nextRec = 1 /\ log = << >>
    /\ scan = OldNames /\ statted = None /\ entered = Absent /\ slips = {} /\ ops = 0

-----------------------------------------------------------------------------
(* fanotify queues an event, or merges it into the mask of one that it has *)
(* still queued for the same name (and the same process).                  *)
Mergeable(q, e) == {i \in 1..Len(q) : q[i].name = e.name /\ e.name # Out}
Merged(q, i, e) == [q EXCEPT ![i].ops = @ \cup e.ops]
Writes == {"MODIFY", "CLOSE_WRITE"}

(* What happens to the files, with the events fanotify queues for it.      *)
Change(to, events) ==
    /\ ops < MaxOps /\ ops' = ops + 1
    /\ at' = to
    /\ \/ queue' = queue \o events /\ UNCHANGED slips
       \/ \E k \in 1..Len(events) : \E i \in Mergeable(queue, events[k]) :
            /\ queue' = Merged(queue, i, events[k])
                          \o [j \in 1..Len(events)-1 |-> events[IF j < k THEN j ELSE j + 1]]
            /\ slips' = IF events[k].ops \subseteq Writes THEN slips ELSE slips \cup {"merged"}
    /\ UNCHANGED <<old, modified, tables, warmup>>

CreateFile(n) ==
    /\ at[n] = 0
    /\ nextFile' = nextFile + 1
    /\ Change([at EXCEPT ![n] = nextFile], <<Event("CREATE", n)>>)

WriteFile(n) ==
    /\ at[n] # 0
    /\ \/ Change(at, <<Event("MODIFY", n), Event("CLOSE_WRITE", n)>>)
       \/ Change(at, <<[ops |-> Writes, name |-> n]>>)
    /\ UNCHANGED nextFile

DeleteFile(n) ==
    /\ at[n] # 0
    /\ Change([at EXCEPT ![n] = 0], <<Event("DELETE", n)>>)
    /\ UNCHANGED nextFile

RenameFile(n, m) ==
    /\ at[n] # 0 /\ n # m
    /\ Change([at EXCEPT ![n] = 0, ![m] = at[n]],
              <<Event("MOVED_FROM", n), Event("MOVED_TO", m)>>)
    /\ UNCHANGED nextFile

MoveOut(n) ==
    /\ at[n] # 0
    /\ Change([at EXCEPT ![n] = 0], <<Event("MOVED_FROM", n), Event("MOVED_TO", Out)>>)
    /\ UNCHANGED nextFile

MoveIn(m) ==
    /\ nextFile' = nextFile + 1
    /\ Change([at EXCEPT ![m] = nextFile],
              <<Event("MOVED_FROM", Out), Event("MOVED_TO", m)>>)

-----------------------------------------------------------------------------
(* ProduceLog: ProductLogForOperate changes the dentry file; when that     *)
(* succeeds a block is logged.                                             *)
Logged(op, n, rec) == log' = Append(log, [op |-> op, name |-> n, rec |-> rec])

(* The file is looked at (stat) and the name must be new (EEXIST).         *)
ProduceCreateLog(n) ==
    IF at[n] = 0 \/ Known(n)
    THEN UNCHANGED tables
    ELSE /\ dent' = [dent EXCEPT ![n] = nextRec] /\ nextRec' = nextRec + 1
         /\ Logged("CREATE", n, nextRec)
         /\ UNCHANGED renameRec

ProduceUnlinkLog(n) ==
    IF ~Known(n)
    THEN UNCHANGED tables
    ELSE /\ dent' = [dent EXCEPT ![n] = Absent]
         /\ Logged("DELETE", n, dent[n])
         /\ UNCHANGED <<renameRec, nextRec>>

RenameNewFails(n, m) == at[m] = 0 \/ (Known(m) /\ m # n)

(* ProduceRenameOldLog for n, then ProduceRenameNewLog for m, which takes  *)
(* the record identifier the last rename has left.                         *)
ProduceRenameLogs(n, m) ==
    LET rec == IF ~Known(n) THEN renameRec ELSE dent[n]
        left == [dent EXCEPT ![n] = Absent]
        oldBlock == IF ~Known(n) THEN << >>
                    ELSE <<[op |-> "MOVE_FROM", name |-> n, rec |-> rec]>>
    IN /\ renameRec' = rec
       /\ IF RenameNewFails(n, m)
          THEN dent' = left /\ log' = log \o oldBlock
          ELSE /\ dent' = [left EXCEPT ![m] = rec]
               /\ log' = log \o oldBlock \o <<[op |-> "MOVE_TO", name |-> m, rec |-> rec]>>
       /\ UNCHANGED nextRec

(* ProduceCloseModifyLog, ProduceCloseAndWriteLog.                         *)
ProduceWriteLogs(n, isModified) ==
    IF at[n] = 0 \/ ~Known(n)
    THEN UNCHANGED tables
    ELSE /\ log' = log \o (IF isModified
                           THEN <<[op |-> "CLOSE_MODIFY", name |-> n, rec |-> dent[n]]>>
                           ELSE << >>)
                       \o <<[op |-> "CLOSE_WRITE", name |-> n, rec |-> dent[n]]>>
         /\ UNCHANGED <<dent, renameRec, nextRec>>

-----------------------------------------------------------------------------
(* EventProcess, for the first event of the queue: of a mask it handles    *)
(* only the first kind that is set, in this order.                         *)
Kinds == <<"CREATE", "DELETE", "MOVED_FROM", "MOVED_TO", "CLOSE_WRITE", "MODIFY">>
FirstKind(mask) ==
    Kinds[CHOOSE i \in 1..6 : Kinds[i] \in mask /\ \A j \in 1..i-1 : Kinds[j] \notin mask]

Subject == Head(queue).name

Handle(op) ==
    /\ queue # << >> /\ FirstKind(Head(queue).ops) = op
    /\ queue' = Tail(queue)
    /\ slips' = IF statted # None /\ statted \in {Subject, old}
                THEN slips \cup {"crossed"} ELSE slips
    /\ UNCHANGED <<at, nextFile, warmup, ops>>

HandleCreate ==
    /\ Handle("CREATE") /\ ProduceCreateLog(Subject)
    /\ UNCHANGED <<old, modified>>

HandleDelete ==
    /\ Handle("DELETE") /\ ProduceUnlinkLog(Subject)
    /\ UNCHANGED <<old, modified>>

(* A move that starts outside leaves oldEventInfo_ as it is.               *)
HandleMoveFrom ==
    /\ Handle("MOVED_FROM")
    /\ old' = IF Subject = Out THEN old ELSE Subject
    /\ UNCHANGED <<modified, dent, renameRec, nextRec, log>>

KeepOld == UNCHANGED old

ResetOld == old' = None

HandleMoveTo ==
    /\ Handle("MOVED_TO")
    /\ CASE old = None /\ Subject = Out -> UNCHANGED tables
         [] old = None /\ Subject # Out -> ProduceCreateLog(Subject)
         [] old # None /\ Subject = Out -> ProduceUnlinkLog(old)
         [] old # None /\ Subject # Out -> ProduceRenameLogs(old, Subject)
    /\ ResetOld
    /\ UNCHANGED modified

HandleModify ==
    /\ Handle("MODIFY")
    /\ modified' = IF at[Subject] = 0 THEN modified ELSE modified \cup {at[Subject]}
    /\ UNCHANGED <<old, dent, renameRec, nextRec, log>>

HandleCloseWrite ==
    /\ Handle("CLOSE_WRITE")
    /\ modified' = modified \ {at[Subject]}
    /\ ProduceWriteLogs(Subject, at[Subject] \in modified)
    /\ UNCHANGED old

-----------------------------------------------------------------------------
(* WarmupChildForDir, on another thread: a name the dentry file does not   *)
(* hold is entered as if it were new, and logged after that.  (That the    *)
(* monitor's handlers, too, enter before they log shows only if they cross *)
(* with the warm-up.)                                                      *)
WarmupStat(n) ==
    /\ n \in scan /\ statted = None
    /\ scan' = scan \ {n}
    /\ statted' = IF at[n] # 0 /\ ~Known(n) THEN n ELSE None
    /\ UNCHANGED <<at, nextFile, queue, old, modified, tables, entered, slips, ops>>

WarmupEnter ==
    /\ statted # None /\ entered = Absent
    /\ IF Known(statted) THEN statted' = None /\ UNCHANGED <<dent, nextRec, entered>>
       ELSE /\ dent' = [dent EXCEPT ![statted] = nextRec] /\ nextRec' = nextRec + 1
            /\ entered' = nextRec
            /\ UNCHANGED statted
    /\ UNCHANGED <<at, nextFile, queue, old, modified, renameRec, log, scan, slips, ops>>

WarmupLog ==
    /\ entered # Absent
    /\ Logged("CREATE", statted, entered)
    /\ statted' = None /\ entered' = Absent
    /\ UNCHANGED <<at, nextFile, queue, old, modified, dent, renameRec, nextRec, scan, slips,
                   ops>>

Next ==
    \/ \E n \in Names : CreateFile(n) \/ WriteFile(n) \/ DeleteFile(n) \/ MoveOut(n)
                        \/ MoveIn(n) \/ WarmupStat(n)
    \/ \E m, n \in Names : RenameFile(n, m)
    \/ HandleCreate \/ HandleDelete \/ HandleMoveFrom \/ HandleMoveTo \/ HandleModify
    \/ HandleCloseWrite \/ WarmupEnter \/ WarmupLog

Spec == Init /\ [][Next]_vars

-----------------------------------------------------------------------------
TypeOK ==
    /\ old \in Names \cup {None}
    /\ \A n \in Names : at[n] \in 0..nextFile-1 /\ dent[n] \in Absent..nextRec-1

Drained == queue = << >> /\ scan = {} /\ statted = None

(* When all events are handled every file is in the dentry file, however   *)
(* late they were handled and in whatever order files were created, moved  *)
(* and replaced in the meantime; the warm-up runs at the same time.        *)
(* Excepted are events that fanotify merged: of a mask only one kind is    *)
(* handled, at the place of the first.                                     *)
FilesAreKnown ==
    Drained /\ "merged" \notin slips => \A n \in Names : at[n] # 0 => Known(n)

(* ... and no file that is gone is left there.  Excepted is also the event *)
(* of a name that the warm-up is at: it enters a file that it has seen     *)
(* although its deletion was handled in between.                           *)
GoneFilesAreForgotten ==
    Drained /\ slips = {} => \A n \in Names : Known(n) => at[n] # 0

Entering == {"CREATE", "MOVE_TO"}
Leaving == {"DELETE", "MOVE_FROM"}

(* An application that replays the log arrives at the files of the folder, *)
(* with the same exceptions.                                               *)
Replayed(n) ==
    \E i \in 1..Len(log) :
        /\ log[i].name = n /\ log[i].op \in Entering
        /\ \A j \in i+1..Len(log) : log[j].name # n \/ log[j].op \notin Leaving
LogReplaysToTheFolder ==
    Drained /\ slips = {} => \A n \in Names : Replayed(n) <=> at[n] # 0

(* An identifier belongs to one file at a time, even if fanotify merges    *)
(* nothing.                                                                *)
FileIdsAreUnique ==
    slips = {} => \A m, n \in Names : (m # n /\ Known(m)) => dent[m] # dent[n]
=============================================================================
