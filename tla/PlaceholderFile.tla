---------------------------- MODULE PlaceholderFile ----------------------------
(***************************************************************************)
(* Placeholder files of the cloud disk service: the calls that create,     *)
(* mark, unmark, update, convert and dehydrate a file, the hydration that  *)
(* fills it, and the counts of placeholders kept on its directories.       *)
(*   services/clouddiskservice/ipc/src/cloud_disk_service.cpp              *)
(*   services/clouddiskservice/ipc/src/placeholder_helper.cpp              *)
(*                                                                         *)
(* All Files are in directory "dir", which is in the sync root "root".     *)
(* The extended attribute user.clouddisk.filesyncstate is one byte that    *)
(* holds the placeholder state and the sync state.  Every step of a caller *)
(* is one system call or one critical section of the state mutex.          *)
(*                                                                         *)
(* The monitor thread handles the events of files that were created and    *)
(* deleted: it keeps the dentries and takes deleted placeholders off the   *)
(* counts, without the file mutex.  Renames, for which it does both in     *)
(* turn, are left out.                                                     *)
(*   services/clouddiskservice/sync_folder/src/cloud_disk_service_logfile.cpp *)
(***************************************************************************)
EXTENDS Integers, FiniteSets, Sequences

CONSTANTS
    Callers,      \* binder threads that serve calls
    Files,
    Ops,          \* the operations the callers and applications ask for
    MaxCalls,     \* bound on the number of calls
    MaxFaults     \* bound on the number of system calls that fail

VARIABLES
    exists,      \* exists[f]: the file is there
    data,        \* data[f]: "real" bytes, truncated to "zero", a "hole" of
                 \* the logical size, or only the first ("head") or the second
                 \* ("tail") of the two chunks that fill it
    byte,        \* byte[f]: the attribute, [ph |-> .., sync |-> ..]
    dentry,      \* dentry[f]: placeholder state kept in the directory's metafile
    count,       \* count[d]: placeholder count attribute of a directory
    hasPh,       \* hasPh[d]: HAS_PLACEHOLDER in the directory's state byte
    fileMutex,   \* GetPlaceholderFileMutex(path)
    stateMutex,  \* GetPlaceholderStateMutex()
    task,        \* task[f]: hydration of f, "none", or "open" for its first or
                 \* second chunk, or "writing" it
    events,      \* events the monitor thread has still to handle
    pc,          \* pc[c]: next step of a caller or the monitor
    call,        \* call[c]: the call c serves and its local variables
    calls, faults,
    asked,       \* asked[f]: the sync state last stored by SetFileSyncStates
    reported,    \* reported[f]: the last call that truncated f returned an error
    slips        \* what has made a count, a state or an entry wrong: "dir" or
                 \* "root" whose count was not written, or its "state" byte,
                 \* an Update that failed "half" way, or two threads without a
                 \* common mutex that "crossed" on one file

vars == <<exists, data, byte, dentry, count, hasPh, fileMutex, stateMutex, task,
          events, pc, call, calls, faults, asked, reported, slips>>

None == "none"
Monitor == "monitor"
Threads == Callers \cup {Monitor}
PhStates == {"NONE", "UNHYDRATED", "PARTIAL", "FULL"}
SyncStates == 0..1
Dirs == {"dir", "root"}
StateOf(d) == IF d = "dir" THEN "dir state" ELSE "root state"
IsPlaceholder(s) == s # "NONE"

Idle == [op |-> None, file |-> None, old |-> "NONE", sync |-> 0, level |-> None,
         tries |-> 0]

TypeOK ==
    /\ exists \in [Files -> BOOLEAN]
    /\ data \in [Files -> {"real", "zero", "hole", "head", "tail"}]
    /\ byte \in [Files -> [ph : PhStates, sync : SyncStates]]
    /\ dentry \in [Files -> PhStates \cup {"missing"}]
    /\ count \in [Dirs -> Nat]
    /\ hasPh \in [Dirs -> BOOLEAN]
    /\ fileMutex \in [Files -> Callers \cup {None}]
    /\ stateMutex \in Callers \cup {None}
    /\ task \in [Files -> {"none", "open1", "writing1", "open2", "writing2"}]
    /\ events \in Seq([kind : {"created", "deleted"}, file : Files])
    /\ \A c \in Threads : (pc[c] = "idle") <=> (call[c].op = None)
    /\ slips \subseteq (Dirs \cup {"dir state", "root state", "half", "crossed"})

Init ==
    /\ exists \in [Files -> IF "create" \in Ops THEN BOOLEAN ELSE {TRUE}]
    /\ data = [f \in Files |-> "real"]
    /\ byte = [f \in Files |-> [ph |-> "NONE", sync |-> 0]]
    /\ dentry = [f \in Files |-> IF exists[f] THEN "NONE" ELSE "missing"]
    /\ count = [d \in Dirs |-> 0]
    /\ hasPh = [d \in Dirs |-> FALSE]
    /\ fileMutex = [f \in Files |-> None]
    /\ stateMutex = None
    /\ task = [f \in Files |-> "none"]
    /\ events = <<>>
    /\ pc = [c \in Threads |-> "idle"]
    /\ call = [c \in Threads |-> Idle]
    /\ calls = 0
    /\ faults = 0
    /\ asked = [f \in Files |-> 0]
    /\ reported = [f \in Files |-> FALSE]
    /\ slips = {}

-----------------------------------------------------------------------------
Op(c) == call[c].op
File(c) == call[c].file
Goto(c, l) == pc' = [pc EXCEPT ![c] = l]

(* The call returns: the lock_guard of the file mutex goes out of scope.   *)
Return(c) ==
    /\ Goto(c, "idle")
    /\ call' = [call EXCEPT ![c] = Idle]
    /\ fileMutex' = [f \in Files |-> IF fileMutex[f] = c THEN None ELSE fileMutex[f]]

eventVars == <<events, slips>>

Stay == UNCHANGED <<exists, data, byte, dentry, count, hasPh, stateMutex, task,
                    calls, faults, asked, reported, eventVars>>

SysCallFails == faults < MaxFaults /\ faults' = faults + 1

(* An error after the file was truncated reaches the caller as a failure.  *)
ReturnBroken(c) ==
    /\ Return(c)
    /\ reported' = [reported EXCEPT ![File(c)] = TRUE]

Queued(kind, f) == \E i \in 1..Len(events) : events[i] = [kind |-> kind, file |-> f]

(* Create and the monitor's handlers take no file mutex: they may meet a   *)
(* call about the same file.                                               *)
Unlocked == {"create", "created", "deleted"}
Crossing(T, f) == IF \E t \in T : File(t) = f THEN {"crossed"} ELSE {}

(* The request has passed the checks of its arguments, of the sync folder  *)
(* and of its owner; GetHmdfsPath has seen the file.                       *)
Call(c, op, f) ==
    /\ pc[c] = "idle"
    /\ calls < MaxCalls
    /\ op \in Ops
    /\ op = "create" \/ exists[f]
    /\ calls' = calls + 1
    /\ slips' = IF op # "create" /\ Queued("deleted", f) THEN slips \cup {"crossed"}
                ELSE slips \cup Crossing({t \in Threads : Op(t) \in Unlocked}, f)
    /\ \E s \in SyncStates :
         /\ op # "setsync" => s = 0
         /\ call' = [call EXCEPT ![c] =
                [Idle EXCEPT !.op = op, !.file = f, !.sync = s]]
    /\ Goto(c, CASE op = "create" -> "openat"
                 [] op = "setsync" -> "setread"
                 [] OTHER -> "lock")
    /\ UNCHANGED <<exists, data, byte, dentry, count, hasPh, fileMutex,
                   stateMutex, task, faults, asked, reported, events>>

(* std::lock_guard lock(GetPlaceholderFileMutex(path)).                    *)
Lock(c) ==
    /\ pc[c] = "lock"
    /\ fileMutex[File(c)] = None
    /\ fileMutex' = [fileMutex EXCEPT ![File(c)] = c]
    /\ Goto(c, "check")
    /\ UNCHANGED call
    /\ Stay

HasOutstandingTask(f) == task[f] # "none"

(* A hydration is under way: E_HYDRATE_IN_PROGRESS.                        *)
CheckOutstanding(c) ==
    /\ pc[c] = "check"
    /\ IF HasOutstandingTask(File(c)) THEN Return(c)
       ELSE Goto(c, "read") /\ UNCHANGED <<call, fileMutex>>
    /\ Stay

TransitionAllowed(op, s) == IF op = "mark" THEN ~IsPlaceholder(s) ELSE s = "FULL"

DehydrateAllowed(s) == s \in {"PARTIAL", "FULL"}

HydrateAllowed(s) == s \in {"UNHYDRATED", "PARTIAL"}

Allowed(op, s) ==
    CASE op \in {"mark", "unmark"} -> TransitionAllowed(op, s)
      [] op = "convert" -> IsPlaceholder(s)
      [] op = "update" -> TRUE
      [] op = "dehydrate" -> DehydrateAllowed(s)
      [] op = "hydrate" -> HydrateAllowed(s)

AfterRead(op) ==
    CASE op \in {"mark", "unmark"} -> "setread"
      [] op \in {"convert", "update"} -> "truncate"
      [] op = "dehydrate" -> "authorize"
      [] op = "hydrate" -> "enqueue"

(* CheckPathNotDir, open, GetFilePlaceholderState: the state on which the  *)
(* operation is allowed or refused, and where it goes on.                  *)
ReadState(c) ==
    /\ pc[c] = "read"
    /\ stateMutex = None
    /\ IF exists[File(c)] /\ Allowed(Op(c), byte[File(c)].ph)
       THEN Goto(c, AfterRead(Op(c))) /\ UNCHANGED <<call, fileMutex>>
       ELSE Return(c)
    /\ Stay

(* RunIfRegistered ... CreateHydrateTask.                                  *)
EnqueueHydration(c) ==
    /\ pc[c] = "enqueue"
    /\ task' = [task EXCEPT ![File(c)] = "open1"]
    /\ Return(c)
    /\ UNCHANGED <<exists, data, byte, dentry, count, hasPh, stateMutex, calls,
                   faults, asked, reported, eventVars>>

(* DispatchDehydrateAuthorization: the application allows it or does not.  *)
Authorize(c) ==
    /\ pc[c] = "authorize"
    /\ \/ Goto(c, "truncate") /\ UNCHANGED <<call, fileMutex>>
       \/ Return(c)
    /\ Stay

AfterTruncate(op) == IF op = "convert" THEN "setread" ELSE "extend"

(* ftruncate(fd, 0).                                                       *)
Truncate(c) ==
    /\ pc[c] = "truncate"
    /\ \/ /\ data' = [data EXCEPT ![File(c)] = "zero"]
          /\ reported' = [reported EXCEPT ![File(c)] = FALSE]
          /\ Goto(c, AfterTruncate(Op(c)))
          /\ UNCHANGED <<call, fileMutex, faults>>
       \/ /\ SysCallFails
          /\ Return(c)
          /\ UNCHANGED <<data, reported>>
    /\ UNCHANGED <<exists, byte, dentry, count, hasPh, stateMutex, task, calls,
                   asked, eventVars>>

DehydrateExtendMaxAttempts == 3

DehydrateLeavesState(op) == IF op = "dehydrate" THEN "return" ELSE "setread"

AfterExtend(op) == "setread"

(* ftruncate(fd, size): three attempts when dehydrating, one otherwise.  A *)
(* Create that fails from here on removes its file again.                  *)
AfterFailure(c) ==
    IF Op(c) = "create" THEN Goto(c, "rollback") /\ UNCHANGED <<call, fileMutex, reported>>
    ELSE ReturnBroken(c)

Extend(c) ==
    /\ pc[c] = "extend"
    /\ \/ /\ data' = [data EXCEPT ![File(c)] = IF @ = "zero" THEN "hole" ELSE @]
          /\ Goto(c, AfterExtend(Op(c)))
          /\ UNCHANGED <<call, fileMutex, faults, reported>>
       \/ /\ SysCallFails
          /\ UNCHANGED data
          /\ LET n == call[c].tries + 1
             IN \/ /\ Op(c) = "dehydrate" /\ n < DehydrateExtendMaxAttempts
                   /\ call' = [call EXCEPT ![c].tries = n]
                   /\ UNCHANGED <<pc, fileMutex, reported>>
                \/ /\ Op(c) = "dehydrate" => n = DehydrateExtendMaxAttempts
                   /\ AfterFailure(c)
    /\ UNCHANGED <<exists, byte, dentry, count, hasPh, stateMutex, task, calls, asked,
                   eventVars>>

-----------------------------------------------------------------------------
(* SetFilePlaceholderState and SetFileSyncState read the byte, replace     *)
(* their half of it and write it back, all under the state mutex.          *)
NewState(op) ==
    CASE op = "mark" -> "FULL"
      [] op \in {"unmark", "convert"} -> "NONE"
      [] op \in {"update", "dehydrate", "create"} -> "UNHYDRATED"

LockState(c) == stateMutex = None /\ stateMutex' = c

SetRead(c) ==
    /\ pc[c] = "setread"
    /\ LockState(c)
    /\ call' = [call EXCEPT ![c].old = byte[File(c)].ph,
                            ![c].sync = CASE Op(c) = "setsync" -> @
                                          [] Op(c) = "create" -> 0
                                          [] OTHER -> byte[File(c)].sync]
    /\ Goto(c, "setwrite")
    /\ UNCHANGED <<exists, data, byte, dentry, count, hasPh, fileMutex, task,
                   calls, faults, asked, reported, eventVars>>

AfterSet(op, old) ==
    CASE op \in {"mark", "unmark"} -> "refresh"
      [] op = "convert" /\ IsPlaceholder(old) -> "refresh"
      [] op \in {"update", "create"} -> "attrs"
      [] OTHER -> "return"

SetWrite(c) ==
    /\ pc[c] = "setwrite"
    /\ stateMutex' = None
    /\ \/ /\ byte' = [byte EXCEPT ![File(c)] =
                [ph |-> IF Op(c) = "setsync" THEN call[c].old ELSE NewState(Op(c)),
                 sync |-> call[c].sync]]
          /\ asked' = [asked EXCEPT ![File(c)] =
                IF Op(c) \in {"setsync", "create"} THEN call[c].sync ELSE @]
          /\ IF AfterSet(Op(c), call[c].old) = "return" THEN Return(c)
             ELSE /\ Goto(c, AfterSet(Op(c), call[c].old))
                  /\ call' = [call EXCEPT ![c].level = "dir"]
                  /\ UNCHANGED fileMutex
          /\ UNCHANGED <<faults, reported>>
       \/ /\ SysCallFails
          /\ IF Op(c) \in {"mark", "unmark", "setsync"}
             THEN Return(c) /\ UNCHANGED reported
             ELSE AfterFailure(c)
          /\ UNCHANGED <<byte, asked>>
    /\ UNCHANGED <<exists, data, dentry, count, hasPh, task, calls, eventVars>>

AfterAttributes(op, old) ==
    IF op = "create" \/ ~IsPlaceholder(old) THEN "refresh" ELSE "dentry"

(* The custom information and the times.  An Update that fails here has    *)
(* made a placeholder that no directory counts.                            *)
SetAttributes(c) ==
    /\ pc[c] = "attrs"
    /\ \/ /\ Goto(c, AfterAttributes(Op(c), call[c].old))
          /\ UNCHANGED <<call, fileMutex, faults, reported, slips>>
       \/ /\ SysCallFails
          /\ AfterFailure(c)
          /\ slips' = IF Op(c) = "update" /\ ~IsPlaceholder(call[c].old)
                      THEN slips \cup {"dir", "half"} ELSE slips
    /\ UNCHANGED <<exists, data, byte, dentry, count, hasPh, stateMutex, task, calls,
                   asked, events>>

Delta(op) == IF op \in {"mark", "update", "create"} THEN 1 ELSE 0

BumpUnclamped(n, op) == IF Delta(op) = 1 THEN n + 1 ELSE n - 1

Bump(n, op) == IF Delta(op) = 1 THEN n + 1 ELSE IF n > 0 THEN n - 1 ELSE 0

ShouldPropagate(old, n) == (old > 0) # (n > 0)

(* UpdateDirectoryCountAndState, one critical section of the state mutex:  *)
(* the count is written, and if the directory gained its first placeholder *)
(* or lost its last one, its state byte.  Either may fail.                 *)
UpdateDirectory(d, n) ==
    \/ /\ count' = [count EXCEPT ![d] = n]
       /\ hasPh' = [hasPh EXCEPT ![d] = IF ShouldPropagate(count[d], n) THEN n > 0 ELSE @]
       /\ slips' = IF ShouldPropagate(count[d], n) THEN slips \ {StateOf(d)} ELSE slips
       /\ UNCHANGED faults
    \/ /\ SysCallFails
       /\ slips' = slips \cup {d}
       /\ UNCHANGED <<count, hasPh>>
    \/ /\ SysCallFails
       /\ ShouldPropagate(count[d], n)
       /\ count' = [count EXCEPT ![d] = n]
       /\ slips' = slips \cup {StateOf(d)}
       /\ UNCHANGED hasPh

(* One round of RefreshAncestorPlaceholderCount.  The parent directory is  *)
(* the next round when the directory gained its first placeholder or lost  *)
(* its last one, and also when its update failed.                          *)
RefreshAncestor(c) ==
    LET d == call[c].level
        n == Bump(count[d], Op(c))
        done == IF Op(c) \in {"create", "deleted"} THEN "return" ELSE "dentry"
    IN /\ pc[c] = "refresh"
       /\ stateMutex = None
       /\ UpdateDirectory(d, n)
       /\ IF d # "root" /\ (ShouldPropagate(count[d], n) \/ faults' # faults)
          THEN call' = [call EXCEPT ![c].level = "root"] /\ UNCHANGED pc
          ELSE Goto(c, done) /\ UNCHANGED call
       /\ UNCHANGED <<exists, data, byte, dentry, fileMutex, stateMutex, task,
                      calls, asked, reported, events>>

DentryAfter(s, op) == IF s = "missing" THEN s ELSE NewState(op)

(* UpdateDentryPlaceholderState: the entry may not be there yet.           *)
UpdateDentry(c) ==
    /\ pc[c] = "dentry"
    /\ dentry' = [dentry EXCEPT ![File(c)] =
                    DentryAfter(@, Op(c))]
    /\ Return(c)
    /\ UNCHANGED <<exists, data, byte, count, hasPh, stateMutex, task, calls,
                   faults, asked, reported, eventVars>>

Finish(c) == pc[c] = "return" /\ Return(c) /\ Stay

(* The kernel reports a change of the directory.                           *)
Notify(kind, f) == events' = Append(events, [kind |-> kind, file |-> f])

(* A call or a task that holds a descriptor of a removed file goes on with *)
(* that file; here a name is used again only when none is left.            *)
NameIsFree(f, c) ==
    /\ ~exists[f]
    /\ task[f] = "none"
    /\ \A d \in Callers \ {c} : File(d) = f => Op(d) = "create" /\ pc[d] = "openat"

NewFile(f, content) ==
    /\ exists' = [exists EXCEPT ![f] = TRUE]
    /\ data' = [data EXCEPT ![f] = content]
    /\ byte' = [byte EXCEPT ![f] = [ph |-> "NONE", sync |-> 0]]
    /\ asked' = [asked EXCEPT ![f] = 0]
    /\ reported' = [reported EXCEPT ![f] = FALSE]
    /\ Notify("created", f)

FileGoes(f) ==
    /\ exists' = [exists EXCEPT ![f] = FALSE]
    /\ Notify("deleted", f)
    /\ slips' = IF Queued("created", f) THEN slips \cup {"crossed"} ELSE slips

(* CreatePlaceholderFileAt takes no file mutex: O_CREAT | O_EXCL.          *)
OpenNewFile(c) ==
    /\ pc[c] = "openat"
    /\ \/ /\ exists[File(c)]
          /\ Return(c)
          /\ UNCHANGED <<exists, data, byte, asked, reported, events>>
       \/ /\ NameIsFree(File(c), c)
          /\ NewFile(File(c), "zero")
          /\ Goto(c, "extend")
          /\ UNCHANGED <<call, fileMutex>>
    /\ UNCHANGED <<dentry, count, hasPh, stateMutex, task, calls, faults, slips>>

(* The unlinkat of a Create that failed; it may fail too, and then leaves  *)
(* a placeholder that no directory counts.                                 *)
Rollback(c) ==
    /\ pc[c] = "rollback"
    /\ ReturnBroken(c)
    /\ \/ exists[File(c)] /\ FileGoes(File(c)) /\ UNCHANGED faults
       \/ ~exists[File(c)] /\ UNCHANGED <<exists, events, faults, slips>>
       \/ /\ SysCallFails
          /\ slips' = IF IsPlaceholder(byte[File(c)].ph) THEN slips \cup {"dir"} ELSE slips
          /\ UNCHANGED <<exists, events>>
    /\ UNCHANGED <<data, byte, dentry, count, hasPh, stateMutex, task, calls, asked>>

-----------------------------------------------------------------------------
(* An application creates or deletes a file of its own.                    *)
AppCreates(f) ==
    /\ "new" \in Ops /\ calls < MaxCalls
    /\ calls' = calls + 1
    /\ NameIsFree(f, None)
    /\ NewFile(f, "real")
    /\ UNCHANGED <<dentry, count, hasPh, fileMutex, stateMutex, task, pc, call, faults,
                   slips>>

AppDeletes(f) ==
    /\ "unlink" \in Ops /\ calls < MaxCalls
    /\ calls' = calls + 1
    /\ exists[f]
    /\ FileGoes(f)
    /\ UNCHANGED <<data, byte, dentry, count, hasPh, fileMutex, stateMutex, task, pc,
                   call, faults, asked, reported>>

(* ProduceRequest of the next event, in the monitor's thread: the state of *)
(* the file (of an entry to be made) or of the entry (to be removed).      *)
HandleEvent ==
    /\ pc[Monitor] = "idle" /\ stateMutex = None
    /\ events # <<>>
    /\ events' = Tail(events)
    /\ LET e == Head(events)
           old == IF e.kind = "created" THEN byte[e.file].ph ELSE dentry[e.file]
       IN /\ slips' = slips \cup Crossing(Callers, e.file)
          /\ IF e.kind = "created" /\ ~exists[e.file] THEN UNCHANGED <<pc, call>>
             ELSE /\ Goto(Monitor, IF e.kind = "created" THEN "insert" ELSE "remove")
                  /\ call' = [call EXCEPT ![Monitor] =
                        [Idle EXCEPT !.op = e.kind, !.file = e.file, !.old = old]]
    /\ UNCHANGED <<exists, data, byte, dentry, count, hasPh, fileMutex, stateMutex, task,
                   calls, faults, asked, reported>>

(* ProduceCreateLog: DoCreate leaves an entry that is there.               *)
ProduceCreateLog ==
    /\ pc[Monitor] = "insert"
    /\ dentry' = [dentry EXCEPT ![File(Monitor)] =
            IF @ = "missing" THEN call[Monitor].old ELSE @]
    /\ Return(Monitor)
    /\ UNCHANGED <<exists, data, byte, count, hasPh, stateMutex, task, calls, faults,
                   asked, reported, eventVars>>

(* ProduceUnlinkLog: DoRemove, and the count if a placeholder is gone.     *)
ProduceUnlinkLog ==
    /\ pc[Monitor] = "remove"
    /\ dentry' = [dentry EXCEPT ![File(Monitor)] = "missing"]
    /\ IF dentry[File(Monitor)] # "missing" /\ IsPlaceholder(call[Monitor].old)
       THEN /\ Goto(Monitor, "refresh")
            /\ call' = [call EXCEPT ![Monitor].level = "dir"]
            /\ UNCHANGED fileMutex
       ELSE Return(Monitor)
    /\ UNCHANGED <<exists, data, byte, count, hasPh, stateMutex, task, calls, faults,
                   asked, reported, eventVars>>

-----------------------------------------------------------------------------
(* Execute, called by the provider of the data: a chunk is written through *)
(* the task's descriptor, under the task's mutex and not the file's.  The  *)
(* data comes in two chunks, in order, and a later task sends both again.  *)
Chunk1(d) == IF d = "real" THEN "real" ELSE "head"
Chunk2(d) == IF d \in {"real", "head"} THEN "real" ELSE "tail"

ExecuteWrite(f) ==
    /\ task[f] \in {"open1", "open2"}
    /\ exists[f]
    /\ data' = [data EXCEPT ![f] = IF task[f] = "open1" THEN Chunk1(@) ELSE Chunk2(@)]
    /\ task' = [task EXCEPT ![f] = IF @ = "open1" THEN "writing1" ELSE "writing2"]
    /\ UNCHANGED <<exists, byte, dentry, count, hasPh, fileMutex, stateMutex, pc,
                   call, calls, faults, asked, reported, eventVars>>

(* EnsurePartialStateLocked, after a chunk that is not the last.           *)
ExecutePartial(f) ==
    /\ task[f] = "writing1"
    /\ stateMutex = None
    /\ byte' = [byte EXCEPT ![f].ph = IF @ = "UNHYDRATED" THEN "PARTIAL" ELSE @]
    /\ task' = [task EXCEPT ![f] = "open2"]
    /\ UNCHANGED <<exists, data, dentry, count, hasPh, fileMutex, stateMutex, pc,
                   call, calls, faults, asked, reported, eventVars>>

(* After the last chunk: SetCompleteStateLocked refuses a file that is no  *)
(* longer being hydrated.  The task ends.                                  *)
ExecuteComplete(f) ==
    /\ task[f] = "writing2"
    /\ stateMutex = None
    /\ byte[f].ph \in {"UNHYDRATED", "PARTIAL"}
    /\ byte' = [byte EXCEPT ![f].ph = "FULL"]
    /\ task' = [task EXCEPT ![f] = "none"]
    /\ UNCHANGED <<exists, data, dentry, count, hasPh, fileMutex, stateMutex, pc,
                   call, calls, faults, asked, reported, eventVars>>

(* The task is cancelled: its mutex is free, no chunk is being written.    *)
CancelTask(f) ==
    /\ task[f] \in {"open1", "open2"}
    /\ task' = [task EXCEPT ![f] = "none"]
    /\ UNCHANGED <<exists, data, byte, dentry, count, hasPh, fileMutex,
                   stateMutex, pc, call, calls, faults, asked, reported, eventVars>>

CreatePlaceholderFileInner(c, f) == Call(c, "create", f)
SetFileSyncStatesInner(c, f) == Call(c, "setsync", f)
MarkFileAsPlaceholderInner(c, f) == Call(c, "mark", f)
UnmarkPlaceholderFileInner(c, f) == Call(c, "unmark", f)
ConvertPlaceholderToFileInner(c, f) == Call(c, "convert", f)
UpdatePlaceholderInner(c, f) == Call(c, "update", f)
DehydrateInner(c, f) == Call(c, "dehydrate", f)
StartHydrationInner(c, f) == Call(c, "hydrate", f)

Request(c, f) ==
    \/ CreatePlaceholderFileInner(c, f) \/ SetFileSyncStatesInner(c, f)
    \/ MarkFileAsPlaceholderInner(c, f) \/ UnmarkPlaceholderFileInner(c, f)
    \/ ConvertPlaceholderToFileInner(c, f) \/ UpdatePlaceholderInner(c, f)
    \/ DehydrateInner(c, f) \/ StartHydrationInner(c, f)

Step(c) ==
    \/ Lock(c) \/ CheckOutstanding(c) \/ ReadState(c) \/ EnqueueHydration(c)
    \/ Authorize(c) \/ Truncate(c) \/ Extend(c) \/ SetRead(c) \/ SetWrite(c)
    \/ SetAttributes(c) \/ RefreshAncestor(c) \/ UpdateDentry(c)
    \/ OpenNewFile(c) \/ Rollback(c) \/ Finish(c)

Hydrate(f) ==
    ExecuteWrite(f) \/ ExecutePartial(f) \/ ExecuteComplete(f) \/ CancelTask(f)

Quiet == events = <<>> /\ \A c \in Threads : pc[c] = "idle"

Done == calls = MaxCalls /\ Quiet /\ UNCHANGED vars

Next ==
    \/ \E c \in Callers, f \in Files : Request(c, f)
    \/ \E c \in Threads : Step(c)
    \/ \E f \in Files : Hydrate(f) \/ AppCreates(f) \/ AppDeletes(f)
    \/ HandleEvent \/ ProduceCreateLog \/ ProduceUnlinkLog
    \/ Done

Spec == Init /\ [][Next]_vars

-----------------------------------------------------------------------------
(* No call is changing file f, and no chunk is being written to it.        *)
AtRest(f) == task[f] \notin {"writing1", "writing2"} /\ \A c \in Threads : File(c) # f

Holes == {"hole", "head", "tail"}

(* "The placeholder has complete local data": a file at rest that is       *)
(* FULLY_HYDRATED, or no placeholder, holds all its bytes, whichever calls *)
(* and chunks came in between, unless the call that truncated it returned  *)
(* an error.  Excepted is a call that meets the Create of its file, which  *)
(* takes no file mutex: a Mark that has read the state before Create sets  *)
(* it makes the empty file FULLY_HYDRATED.                                 *)
HolesAreMarkedOrReported ==
    \A f \in Files : exists[f] /\ AtRest(f)
        => \/ reported[f] \/ "crossed" \in slips
           \/ byte[f].ph \notin {"NONE", "FULL"}
           \/ data[f] \notin Holes

(* A chunk of a hydration never lands in a file that a call truncates,     *)
(* extends or converts: the outstanding task and the file mutex exclude    *)
(* each other.                                                             *)
HydrationExcludesCalls ==
    \A f \in Files : task[f] # "none" =>
        \A c \in Callers : File(c) = f /\ Op(c) \notin {"setsync", "create"}
            => pc[c] \in {"lock", "check"}

(* The sync state an application stored survives every change of the       *)
(* placeholder state, which is kept in the same byte.                      *)
SyncStateKept == \A f \in Files : exists[f] => byte[f].sync = asked[f]

(* When no call and no event is under way the count of a directory is the  *)
(* number of placeholders in it, and it is counted in the root when there  *)
(* is one, although the two counts are changed in separate critical        *)
(* sections and the monitor holds no file mutex.  Excepted are the         *)
(* directories whose count could not be written, for which the code only   *)
(* logs, and behaviours in which the monitor handled the event of a file   *)
(* that a call was changing: it takes a state that is about to change.     *)
CountsAreExact ==
    Quiet /\ "crossed" \notin slips =>
        LET n == Cardinality({f \in Files : exists[f] /\ IsPlaceholder(byte[f].ph)})
        IN /\ "dir" \notin slips => count["dir"] = n
           /\ slips \cap Dirs = {} => count["root"] = IF n > 0 THEN 1 ELSE 0

(* Of a directory's count and its HAS_PLACEHOLDER state neither is changed *)
(* without the other, until the write of the state fails; the next change  *)
(* between none and some repairs it.                                       *)
DirectoryStateMatchesCount ==
    \A d \in Dirs : StateOf(d) \notin slips => (hasPh[d] <=> count[d] > 0)

(* The entry kept in the directory's metafile, by which the deletion of    *)
(* the file is counted, agrees with the file's own attribute when the      *)
(* events of the file are handled.  Excepted are crossing threads and an   *)
(* Update that made a placeholder and then failed on its attributes: it    *)
(* returns without the count and the entry.                                *)
DentryAgrees ==
    \A f \in Files : /\ exists[f] /\ AtRest(f) /\ dentry[f] # "missing"
                     /\ slips \cap {"half", "crossed"} = {}
                     /\ \A i \in 1..Len(events) : events[i].file # f
        => IsPlaceholder(dentry[f]) = IsPlaceholder(byte[f].ph)
=============================================================================
