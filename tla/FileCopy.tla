------------------------------- MODULE FileCopy -------------------------------
(***************************************************************************)
(* Copies on one device: FileCopyManager walks a tree and copies its files *)
(* chunk by chunk, applications cancel copies from other threads, and a    *)
(* FileCopyLocalListener follows the growth of the files with inotify and  *)
(* reports the progress from a thread of its own.                          *)
(***************************************************************************)
EXTENDS Integers, Sequences, FiniteSets

CONSTANTS
    Kinds,      \* subset of {"tree", "listener"}
    Copies,     \* calls of Copy
    PairOf,     \* copy -> its source and destination
    Tree,       \* what is copied, in the order of the walk: <<[name, dir, in], ...>>
    Chunks,     \* chunks of a file
    MaxCancels,
    MaxFaults

VARIABLES
    infos,      \* FileInfosVec_
    copy,       \* copy -> [at, pos, chunk, needCancel, purge, listening, files, dirs, res]
    disk,       \* pair -> what exists at the destination
    cancel,     \* the Cancel under way: [at, copy, keep, all, rest]
    after,      \* history: copy -> chunks copied after its cancel
    main,       \* the copying thread and its listener
    thread,     \* notifyHandler_
    fd,         \* notifyFd_ and eventFd_: "open" or "closed"
    closes,     \* history: how often they were closed
    readFlag, readClosed, run, error,
    events,     \* inotify events to be read
    size,       \* size of the file that is watched
    progress,   \* progressSize_
    mtp,        \* isMtpPath_
    held,       \* the progress that StopListener has read and not yet reported
    reported,   \* history: the last report, whether one went back or came late,
                \* and whether the thread has reported since StopListener began
    cancels, faults

treeVars == <<infos, copy, disk, cancel, after, cancels>>
listenerVars == <<main, thread, fd, closes, readFlag, readClosed, run, error, events, size, progress, mtp, held, reported>>
vars == <<treeVars, listenerVars, faults>>

Pairs == {PairOf[c] : c \in Copies}
Item(c) == Tree[copy[c].pos]
Names == {Tree[i].name : i \in DOMAIN Tree}
Files == {Tree[i].name : i \in {j \in DOMAIN Tree : ~Tree[j].dir}}
Total == Chunks

NoCancel == [at |-> "idle", copy |-> "none", keep |-> FALSE, all |-> FALSE, rest |-> <<>>]

TypeOK ==
    /\ \A c \in Copies : copy[c].pos \in 1 .. Len(Tree) + 1 /\ copy[c].chunk \in 0 .. Chunks
    /\ \A p \in Pairs : disk[p] \subseteq Names
    /\ \A i \in DOMAIN infos : infos[i] \in Copies
    /\ events \in 0 .. 2 /\ size \in 0 .. Total /\ progress \in 0 .. Total

Init ==
    /\ infos = <<>> /\ cancel = NoCancel /\ cancels = 0 /\ faults = 0
    /\ copy = [c \in Copies |-> [at |-> "idle", pos |-> 1, chunk |-> 0, needCancel |-> FALSE, purge |-> FALSE,
                                 listening |-> FALSE, files |-> {}, dirs |-> {}, res |-> "none"]]
    /\ disk = [p \in Pairs |-> {}] /\ after = [c \in Copies |-> 0]
    /\ main = "idle" /\ thread = "none" /\ fd = "open" /\ closes = 0
    /\ readFlag = FALSE /\ readClosed = FALSE /\ run = TRUE /\ error = FALSE
    /\ events = 0 /\ size = 0 /\ progress = 0 /\ held = 0
    /\ mtp \in (IF "listener" \in Kinds THEN BOOLEAN ELSE {FALSE})
    /\ reported = [last |-> 0, back |-> FALSE, late |-> FALSE, met |-> FALSE]

-----------------------------------------------------------------------------
(* FileCopyManager                                                         *)

VectorFree == cancel.at = "idle"

Set(c, f) == copy' = [copy EXCEPT ![c] = f]
Ends(c, res) == Set(c, [copy[c] EXCEPT !.at = "end", !.res = res])
TreeStep == UNCHANGED <<listenerVars, cancel, cancels>>

\* CreateFileInfos: the copy is listed before it has a listener.
Copy(c) ==
    /\ copy[c].at = "idle" /\ VectorFree
    /\ infos' = Append(infos, c) /\ Set(c, [copy[c] EXCEPT !.at = "listed"])
    /\ TreeStep /\ UNCHANGED <<disk, after, faults>>

GetLocalListener(c) ==
    /\ copy[c].at = "listed" /\ Set(c, [copy[c] EXCEPT !.at = "exec", !.listening = TRUE])
    /\ TreeStep /\ UNCHANGED <<infos, disk, after, faults>>

\* ExecLocal: the destination of a file is created; a watch may fail.
ExecLocal(c, ok) ==
    /\ copy[c].at = "exec"
    /\ IF ok THEN /\ Set(c, [copy[c] EXCEPT !.at = "walk"])
                  /\ disk' = [disk EXCEPT ![PairOf[c]] = IF Tree[1].dir THEN @ ELSE @ \cup {Tree[1].name}]
                  /\ UNCHANGED faults
       ELSE /\ faults < MaxFaults /\ faults' = faults + 1 /\ Ends(c, "error") /\ UNCHANGED disk
    /\ TreeStep /\ UNCHANGED <<infos, after>>

HasPlace(c) == Item(c).in = "root" \/ Item(c).in \in disk[PairOf[c]]

CopySubDir(c) ==
    /\ copy[c].at = "walk" /\ copy[c].pos <= Len(Tree) /\ Item(c).dir
    /\ IF HasPlace(c)
       THEN /\ disk' = [disk EXCEPT ![PairOf[c]] = @ \cup {Item(c).name}]
            /\ Set(c, [copy[c] EXCEPT !.pos = @ + 1, !.dirs = @ \cup {Item(c).name}])
       ELSE Ends(c, "error") /\ UNCHANGED disk
    /\ TreeStep /\ UNCHANGED <<infos, after, faults>>

\* CopyFile: the name is noted, then the destination opened and filled.
CopyFile(c) ==
    /\ copy[c].at = "walk" /\ copy[c].pos <= Len(Tree) /\ ~Item(c).dir
    /\ Set(c, [copy[c] EXCEPT !.at = "open", !.files = @ \cup {Item(c).name}])
    /\ TreeStep /\ UNCHANGED <<infos, disk, after, faults>>

\* OpenSrcFile: on a media device a cancel is looked at here as well.
OpenSrcFile(c, ok, media) ==
    /\ copy[c].at = "open"
    /\ IF ~ok THEN faults < MaxFaults /\ faults' = faults + 1 /\ Ends(c, "error")
       ELSE /\ UNCHANGED faults
            /\ IF media /\ copy[c].needCancel THEN Ends(c, "cancelled") ELSE Set(c, [copy[c] EXCEPT !.at = "dest"])
    /\ TreeStep /\ UNCHANGED <<infos, disk, after>>

OpenDest(c, ok) ==
    /\ copy[c].at = "dest"
    /\ IF ok /\ HasPlace(c)
       THEN /\ Set(c, [copy[c] EXCEPT !.at = "send", !.chunk = 0])
            /\ disk' = [disk EXCEPT ![PairOf[c]] = @ \cup {Item(c).name}] /\ UNCHANGED faults
       ELSE /\ IF ok THEN UNCHANGED faults ELSE faults < MaxFaults /\ faults' = faults + 1
            /\ Ends(c, "error") /\ UNCHANGED disk
    /\ TreeStep /\ UNCHANGED <<infos, after>>

IsCancelled(c) == copy[c].needCancel

\* SendFileCore: a chunk is sent, then the cancel looked at; nothing more to
\* send ends the file.
SendFileCore(c) ==
    /\ copy[c].at = "send"
    /\ after' = [after EXCEPT ![c] = IF copy[c].needCancel /\ copy[c].chunk < Chunks THEN @ + 1 ELSE @]
    /\ IF IsCancelled(c) THEN Ends(c, "cancelled")
       ELSE IF copy[c].chunk < Chunks THEN Set(c, [copy[c] EXCEPT !.chunk = @ + 1])
       ELSE Set(c, [copy[c] EXCEPT !.at = "walk", !.pos = @ + 1])
    /\ TreeStep /\ UNCHANGED <<infos, disk, faults>>

\* The source cannot be looked at or sent, or has another size in the end.
SendFileFails(c) ==
    /\ copy[c].at = "send" /\ faults < MaxFaults /\ faults' = faults + 1 /\ Ends(c, "error")
    /\ TreeStep /\ UNCHANGED <<infos, disk, after>>

WalkEnds(c) ==
    /\ copy[c].at = "walk" /\ copy[c].pos > Len(Tree) /\ Ends(c, "ok")
    /\ TreeStep /\ UNCHANGED <<infos, disk, after, faults>>

\* Every copy of the same source and destination is taken off the list.
RemoveFileInfos(c) ==
    /\ copy[c].at = "end" /\ VectorFree
    /\ infos' = SelectSeq(infos, LAMBDA d : PairOf[d] # PairOf[c])
    /\ Set(c, [copy[c] EXCEPT !.at = "done"])
    /\ TreeStep /\ UNCHANGED <<disk, after, faults>>

Cancelled(c, keep) == [copy[c] EXCEPT !.needCancel = TRUE, !.purge = ~keep]

\* Cancel finds the first copy of the pair, and lets go of it at the end.
Cancel(p, keep) ==
    /\ VectorFree /\ cancels < MaxCancels /\ cancels' = cancels + 1
    /\ \E i \in DOMAIN infos :
        /\ PairOf[infos[i]] = p /\ \A j \in 1 .. i - 1 : PairOf[infos[j]] # p
        /\ Set(infos[i], Cancelled(infos[i], keep))
        /\ cancel' = [at |-> "files", copy |-> infos[i], keep |-> keep, all |-> FALSE, rest |-> <<>>]
    /\ UNCHANGED <<listenerVars, infos, disk, after, faults>>

\* Cancel without a pair goes through all copies, and lets go of them at the
\* end.
CancelAll(keep) ==
    /\ VectorFree /\ cancels < MaxCancels /\ cancels' = cancels + 1 /\ infos # <<>>
    /\ Set(Head(infos), Cancelled(Head(infos), keep))
    /\ cancel' = [at |-> "files", copy |-> Head(infos), keep |-> keep, all |-> TRUE, rest |-> Tail(infos)]
    /\ UNCHANGED <<listenerVars, infos, disk, after, faults>>

CancelledIn == PairOf[cancel.copy]
Unlisted == IF cancel.all THEN <<>> ELSE SelectSeq(infos, LAMBDA d : d # cancel.copy)

NextCancel ==
    IF cancel.rest = <<>> THEN cancel' = NoCancel /\ infos' = Unlisted /\ UNCHANGED copy
    ELSE /\ cancel' = [cancel EXCEPT !.at = "files", !.copy = Head(cancel.rest), !.rest = Tail(@)]
         /\ Set(Head(cancel.rest), Cancelled(Head(cancel.rest), cancel.keep)) /\ UNCHANGED infos

\* DeleteResFile: first the files that were noted, then the directories; a
\* directory goes before the ones below it, and stays if it is not empty.
DeleteFiles ==
    /\ cancel.at = "files"
    /\ IF cancel.keep \/ ~copy[cancel.copy].listening
       THEN NextCancel /\ UNCHANGED disk
       ELSE /\ cancel' = [cancel EXCEPT !.at = "dirs"]
            /\ disk' = [disk EXCEPT ![CancelledIn] = @ \ copy[cancel.copy].files]
            /\ UNCHANGED <<infos, copy>>
    /\ UNCHANGED <<listenerVars, after, faults, cancels>>

Below(d) == {Tree[i].name : i \in {j \in DOMAIN Tree : Tree[j].in = d}}

DeleteDirs ==
    /\ cancel.at = "dirs" /\ NextCancel
    /\ disk' = [disk EXCEPT ![CancelledIn] = @ \ {d \in copy[cancel.copy].dirs : Below(d) \cap @ = {}}]
    /\ UNCHANGED <<listenerVars, after, faults, cancels>>

TreeNext ==
    \/ \E c \in Copies :
        \/ Copy(c) \/ GetLocalListener(c) \/ CopySubDir(c) \/ CopyFile(c) \/ SendFileCore(c)
        \/ SendFileFails(c) \/ WalkEnds(c)
        \/ RemoveFileInfos(c)
        \/ \E ok, media \in BOOLEAN : ExecLocal(c, ok) \/ OpenSrcFile(c, ok, media) \/ OpenDest(c, ok)
    \/ \E p \in Pairs, keep \in BOOLEAN : Cancel(p, keep)
    \/ \E keep \in BOOLEAN : CancelAll(keep)
    \/ DeleteFiles \/ DeleteDirs

-----------------------------------------------------------------------------
(* FileCopyLocalListener                                                   *)

Report(n, byThread) ==
    reported' = [reported EXCEPT !.last = n, !.back = @ \/ n < reported.last, !.late = @ \/ main = "returned",
                                  !.met = @ \/ (byThread /\ main # "copying")]

ClosingEvent == 1

\* CloseNotifyFd: removing the watches leaves an event that wakes a poll.
CloseNotifyFd ==
    /\ readClosed' = FALSE
    /\ IF fd = "open" THEN fd' = "closed" /\ closes' = closes + 1 /\ events' = (IF events < 2 THEN events + ClosingEvent ELSE events)
       ELSE UNCHANGED <<fd, closes, events>>

\* There is no thread when there is nothing to copy.
StartListener ==
    /\ main = "idle" /\ main' = "copying"
    /\ \/ thread' = IF mtp THEN "mtp" ELSE "loop"
       \/ UNCHANGED thread
    /\ UNCHANGED <<fd, closes, readFlag, readClosed, run, error, events, size, progress, held, reported>>

Grow ==
    /\ main = "copying" /\ size < Total /\ size' = size + 1
    /\ events' = IF events < 2 THEN events + 1 ELSE events
    /\ UNCHANGED <<main, thread, fd, closes, readFlag, readClosed, run, error, progress, held, reported>>

\* StopListener: the progress is read for a last report, then come the
\* descriptors, the flag and the thread.
StopListener ==
    /\ main = "copying" /\ main' = "last" /\ held' = IF mtp THEN Total ELSE progress
    /\ UNCHANGED <<thread, fd, closes, readFlag, readClosed, run, error, events, size, progress, reported>>

LastReport ==
    /\ main = "last" /\ main' = "close" /\ Report(held, FALSE)
    /\ UNCHANGED <<thread, fd, closes, readFlag, readClosed, run, error, events, size, progress, held>>

CloseNotifyFdLocked ==
    /\ main = "close" /\ main' = "flag"
    /\ IF readFlag THEN readClosed' = TRUE /\ UNCHANGED <<fd, closes, events>> ELSE CloseNotifyFd
    /\ UNCHANGED <<thread, readFlag, run, error, size, progress, held, reported>>

StopRun ==
    /\ main = "flag" /\ main' = "join" /\ run' = FALSE
    /\ UNCHANGED <<thread, fd, closes, readFlag, readClosed, error, events, size, progress, held, reported>>

Join ==
    /\ main = "join" /\ thread \in {"none", "ended"} /\ main' = "returned"
    /\ UNCHANGED <<thread, fd, closes, readFlag, readClosed, run, error, events, size, progress, held, reported>>

\* GetNotifyEvent: the loop's condition, the poll, the read, a short wait.
Loop ==
    /\ thread = "loop" /\ thread' = IF run /\ ~error /\ fd = "open" THEN "poll" ELSE "ended"
    /\ UNCHANGED <<main, fd, closes, readFlag, readClosed, run, error, events, size, progress, held, reported>>

Poll ==
    /\ thread = "poll"
    /\ IF fd = "closed" THEN thread' = "ended" /\ run' = FALSE ELSE thread' = "blocked" /\ UNCHANGED run
    /\ UNCHANGED <<main, fd, closes, readFlag, readClosed, error, events, size, progress, held, reported>>

\* A poll that is woken by the closing event finds the descriptor invalid.
PollInvalid ==
    /\ thread = "blocked" /\ events > 0 /\ fd = "closed" /\ thread' = "ended" /\ run' = FALSE
    /\ UNCHANGED <<main, fd, closes, readFlag, readClosed, error, events, size, progress, held, reported>>

ReadNotifyEventLocked ==
    /\ thread = "blocked" /\ events > 0
    /\ IF readClosed THEN thread' = "loop" /\ UNCHANGED readFlag ELSE thread' = "read" /\ readFlag' = TRUE
    /\ UNCHANGED <<main, fd, closes, readClosed, run, error, events, size, progress, held, reported>>

\* ReadNotifyEvent: the size of the file is looked up, which may fail.
ReadNotifyEvent(ok, due) ==
    /\ thread = "read" /\ events' = 0
    /\ IF fd = "closed" \/ ~run THEN thread' = "readEnd" /\ UNCHANGED <<run, error, progress, faults>>
       ELSE IF ~ok THEN /\ faults < MaxFaults /\ faults' = faults + 1
                        /\ error' = TRUE /\ thread' = "readEnd" /\ UNCHANGED <<run, progress>>
       ELSE /\ progress' = size /\ run' = (run /\ size # Total)
            /\ thread' = IF due /\ size # Total THEN "tell" ELSE "readEnd"
            /\ UNCHANGED <<error, faults>>
    /\ UNCHANGED <<main, fd, closes, readFlag, readClosed, size, mtp, held, reported>>

TellProgress ==
    /\ thread = "tell" /\ thread' = "readEnd" /\ Report(progress, TRUE)
    /\ UNCHANGED <<main, fd, closes, readFlag, readClosed, run, error, events, size, progress, held>>

\* GetNotifyEvent4Mtp: on a media device the progress is guessed.
GetNotifyEvent4Mtp ==
    /\ thread = "mtp"
    /\ IF run THEN thread' = "guess" /\ progress' = (IF progress < Total THEN progress + 1 ELSE Total)
       ELSE thread' = "ended" /\ UNCHANGED progress
    /\ UNCHANGED <<main, fd, closes, readFlag, readClosed, run, error, events, size, held, reported>>

TellGuess ==
    /\ thread = "guess" /\ thread' = "mtp" /\ Report(progress, TRUE)
    /\ UNCHANGED <<main, fd, closes, readFlag, readClosed, run, error, events, size, progress, held>>

ReadEnds ==
    /\ thread = "readEnd" /\ thread' = "loop" /\ readFlag' = FALSE
    /\ IF readClosed THEN CloseNotifyFd ELSE UNCHANGED <<fd, closes, events, readClosed>>
    /\ UNCHANGED <<main, run, error, size, progress, held, reported>>

ListenerNext ==
    \/ /\ \/ StartListener \/ Grow \/ StopListener \/ LastReport \/ CloseNotifyFdLocked \/ StopRun \/ Join
          \/ Loop \/ Poll \/ PollInvalid \/ ReadNotifyEventLocked \/ ReadEnds
          \/ TellProgress \/ GetNotifyEvent4Mtp \/ TellGuess
       /\ UNCHANGED <<treeVars, mtp, faults>>
    \/ /\ \E ok, due \in BOOLEAN : ReadNotifyEvent(ok, due)
       /\ UNCHANGED treeVars

Next == ("tree" \in Kinds /\ TreeNext) \/ ("listener" \in Kinds /\ ListenerNext)

Spec == Init /\ [][Next]_vars

-----------------------------------------------------------------------------
(* What is checked                                                         *)

\* After it is cancelled a copy sends at most the chunk it is at, and once it
\* has returned from a cancel that deletes, at most one file is left behind.
CancelStopsTheCopy ==
    \A c \in Copies :
        /\ after[c] <= 1
        /\ /\ copy[c].at = "done" /\ copy[c].purge /\ cancel = NoCancel /\ copy[c].res = "cancelled"
           /\ \A d \in Copies \ {c} : PairOf[d] # PairOf[c]
           => Cardinality(disk[PairOf[c]] \cap Files) <= 1

\* A copy that is under way can be found by a cancel, unless it was cancelled
\* or another copy of the same source and destination has ended.
CopiesCanBeCancelled ==
    \A c \in Copies :
        /\ copy[c].at \notin {"idle", "done"} /\ ~copy[c].needCancel
        /\ \A d \in Copies \ {c} : PairOf[d] = PairOf[c] => copy[d].at # "done"
        => \E i \in DOMAIN infos : infos[i] = c

\* StopListener returns: a thread that it waits for has an event to wake it.
\* Nothing is reported after it has returned, reports go back only when a
\* report of the thread met the last one of StopListener, and the descriptors
\* are closed exactly once, by the one of the two that is last.
ListenerStops ==
    /\ main = "join" /\ thread = "blocked" => events > 0
    /\ ~reported.late /\ (reported.back => reported.met)
    /\ closes <= 1 /\ (main = "returned" => fd = "closed" /\ ~readFlag)
=============================================================================
