---------------------------- MODULE CloudDiskStore ----------------------------
(***************************************************************************)
(* The cloud disk's two views of a file: its row in the database, and its  *)
(* entry in the dentry file of its directory.                              *)
(*   services/clouddisk_database/src/clouddisk_rdbstore.cpp                *)
(*   services/cloudfiledaemon/src/cloud_disk/file_operations_cloud.cpp     *)
(*   utils/dentry/src/meta_file_clouddisk.cpp                              *)
(*                                                                         *)
(* A handler changes the dentry file at once.  The row is changed in a     *)
(* transaction, whose commit may fail after the dentry has changed, or, by *)
(* rename and unlink, in a detached thread.  "root" takes part in the      *)
(* synchronisation and "local" does not; the recycle bin is the set trash, *)
(* whose entries carry the row id in their names and never collide.        *)
(***************************************************************************)
EXTENDS Integers, FiniteSets

CONSTANTS
    Ids,        \* cloud ids
    Names,
    Ops,        \* the operations of this instance
    MaxOps,     \* bound on the operations
    MaxFaults   \* bound on failing updates and commits, and on crashes

VARIABLES
    rows,       \* rows[c]: the row of a cloud id
    dentry,     \* entries <<directory, name, cloud id>>
    trash,      \* cloud ids with an entry in the recycle bin
    files,      \* cloud ids with a file on the device
    threads,    \* detached threads: [op, id, dir, name, dirty, upload]
    timer,      \* the delayed trigger of the synchronisation is armed
    syncing,    \* the synchronisation was triggered and is at work
    lost,       \* a trigger was lost to a failure and none was armed since: a history
    cut,        \* cloud ids with an update that failed or was overtaken
    ops, faults

vars == <<rows, dentry, trash, files, threads, timer, syncing, lost, cut, ops, faults>>

Dirs == {"root", "local"}
Dirty == {"SYNCED", "NEW", "MDIRTY", "FDIRTY", "DELETED", "NO_NEED_UPLOAD", "COPY"}
Positions == {"LOCAL", "CLOUD", "LOCAL_AND_CLOUD"}
NoRow == [in |-> FALSE, dir |-> "root", name |-> "", dirty |-> "SYNCED",
          pos |-> "LOCAL", recycled |-> FALSE]

TypeOK ==
    /\ rows \in [Ids -> [in : BOOLEAN, dir : Dirs, name : Names \cup {""}, dirty : Dirty,
                         pos : Positions, recycled : BOOLEAN]]
    /\ dentry \subseteq Dirs \X Names \X Ids /\ trash \subseteq Ids
    /\ files \subseteq Ids /\ cut \subseteq Ids
    /\ timer \in BOOLEAN /\ syncing \in BOOLEAN /\ lost \in BOOLEAN
    /\ \A t \in threads : t.op \in {"rename", "unlink"} /\ t.id \in Ids

Init ==
    /\ rows = [c \in Ids |-> NoRow] /\ dentry = {} /\ trash = {} /\ files = {}
    /\ threads = {} /\ timer = FALSE /\ syncing = FALSE /\ lost = FALSE /\ cut = {}
    /\ ops = 0 /\ faults = 0

NeedUpload(d) == d = "root"
Fresh(c) == ~rows[c].in /\ c \notin trash \cup files \cup cut
            /\ \A e \in dentry : e[3] # c
            /\ \A t \in threads : t.id # c
Taken(d, n) == \E e \in dentry : e[1] = d /\ e[2] = n
Reachable(c) == c \in trash \/ \E e \in dentry : e[3] = c

Operation(op) == op \in Ops /\ ops < MaxOps /\ ops' = ops + 1

-----------------------------------------------------------------------------
(* The end of a transaction that has changed rows to r and the dentries    *)
(* already: commit, or rollback when committing has failed three times.    *)
(* The handler does not look at the result.  crossed: the files whose      *)
(* place a detached thread will still overwrite.                           *)
FinishCrossing(c, r, crossed) ==
    \/ rows' = r /\ cut' = cut \cup crossed /\ UNCHANGED faults
    \/ faults < MaxFaults /\ faults' = faults + 1
       /\ rows' = rows /\ cut' = cut \cup {c}

Finish(c, r) == FinishCrossing(c, r, {})

(* The armed timer is taken off first: when the new one cannot be          *)
(* registered none is left.                                                *)
RegisterTriggerSync(wanted) ==
    \/ timer' = (timer \/ wanted) /\ lost' = (lost /\ ~wanted)
    \/ wanted /\ MaxFaults > 0 /\ timer' = FALSE /\ lost' = TRUE

(* A change of meta data of a file that the cloud knows, unless its        *)
(* content has to be uploaded anyway.                                      *)
MetaDirty(r) == IF r.pos # "LOCAL" /\ r.dirty # "FDIRTY" THEN "MDIRTY" ELSE r.dirty

Create(d, n, c) ==
    /\ Finish(c, [rows EXCEPT ![c] = [NoRow EXCEPT
          !.in = TRUE, !.dir = d, !.name = n, !.dirty = "NO_NEED_UPLOAD"]])
    /\ dentry' = dentry \cup {<<d, n, c>>}

(* mknod: a failure before the row is inserted takes the local file back.  *)
DoCreatFile(d, n, c) ==
    /\ Operation("create") /\ Fresh(c) /\ ~Taken(d, n)
    /\ Create(d, n, c)
    /\ files' = files \cup {c}
    /\ UNCHANGED <<trash, threads, timer, syncing, lost>>

MkDir(d, n, c) ==
    /\ Operation("mkdir") /\ Fresh(c) /\ ~Taken(d, n)
    /\ Finish(c, [rows EXCEPT ![c] = [NoRow EXCEPT
          !.in = TRUE, !.dir = d, !.name = n, !.dirty = "NEW"]])
    /\ dentry' = dentry \cup {<<d, n, c>>}
    /\ RegisterTriggerSync(NeedUpload(d))
    /\ UNCHANGED <<trash, files, threads, syncing>>

(* Content was written: new to the cloud, or new content of a file it has. *)
HandleWriteValue(r) == [r EXCEPT !.dirty = IF r.pos = "LOCAL" THEN "NEW" ELSE "FDIRTY"]

(* TriggerSyncForWrite looks the entry up to learn whether it is uploaded. *)
TriggerSyncForWrite(d) == NeedUpload(d)

(* The last close of a handle that wrote: the row, then the entry, which   *)
(* must still be under the name that the inode remembers.                  *)
Write(c) ==
    /\ Operation("write") /\ rows[c].in /\ c \in files
    /\ \E d \in Dirs :
          /\ \/ \E n \in Names : <<d, n, c>> \in dentry
             \/ c \in trash /\ d = rows[c].dir
          /\ Finish(c, [rows EXCEPT ![c] = HandleWriteValue(@)])
          /\ RegisterTriggerSync(TriggerSyncForWrite(d))
    /\ UNCHANGED <<dentry, trash, files, threads, syncing>>

(* Times set by an application: no upload is triggered.                    *)
MtimeSetAttr(c) ==
    /\ Operation("setattr") /\ rows[c].in
    /\ Finish(c, [rows EXCEPT ![c].dirty = IF @ = "SYNCED" THEN "MDIRTY" ELSE @])
    /\ UNCHANGED <<dentry, trash, files, threads, timer, syncing, lost>>

(* The extended attributes an application sets, on a file it finds by its  *)
(* path (and not through a handle that outlived the entry).                *)
ExtAttributeSetXattr(c) ==
    /\ Operation("setxattr") /\ rows[c].in /\ Reachable(c)
    /\ Finish(c, [rows EXCEPT ![c].dirty = MetaDirty(rows[c])])
    /\ RegisterTriggerSync(TRUE)
    /\ UNCHANGED <<dentry, trash, files, threads, syncing>>

(* Thumbnails have arrived.                                                *)
HasTHMSetXattr(c) ==
    /\ Operation("setxattr") /\ rows[c].in
    /\ Finish(c, [rows EXCEPT ![c].dirty = IF @ = "SYNCED" THEN "MDIRTY" ELSE @])
    /\ RegisterTriggerSync(TRUE)
    /\ UNCHANGED <<dentry, trash, files, threads, syncing>>

(* The synchronisation has fetched a file, or has dropped its local copy.  *)
LocationSetXattr(c, p) ==
    /\ Operation("location") /\ rows[c].in /\ rows[c].dirty = "SYNCED"
    /\ rows[c].pos # "LOCAL" /\ p \in {"CLOUD", "LOCAL_AND_CLOUD"} \ {rows[c].pos}
    /\ rows' = [rows EXCEPT ![c].pos = p]
    /\ files' = IF p = "CLOUD" THEN files \ {c} ELSE files \cup {c}
    /\ UNCHANGED <<dentry, trash, threads, timer, syncing, lost, cut, faults>>

-----------------------------------------------------------------------------
(* Detached threads.  Two of them may run in either order: the row of a    *)
(* file with two at once is not predictable.                               *)
Awaited(c) == {t.id : t \in {u \in threads : u.id = c}}

Detach(t) ==
    /\ threads' = threads \cup {t}
    /\ cut' = cut \cup Awaited(t.id)

DoRenameKeepsOld(e, d, n) == dentry' = dentry \cup {<<d, n, e[3]>>}

(* DoRename: the entry is created in the new directory and removed from    *)
(* the old one, or neither.                                                *)
DoRename(e, d, n) == dentry' = (dentry \ {e}) \cup {<<d, n, e[3]>>}

(* The values are computed before the thread starts.  A rename by the      *)
(* synchronisation itself (sync is FALSE), which knows only files that     *)
(* take part in it, is no change to upload.                                *)
HandleRenameValue(c, d, n, sync) ==
    [op |-> "rename", id |-> c, dir |-> d, name |-> n,
     dirty |-> IF sync /\ MetaDirty(rows[c]) = "MDIRTY" THEN "MDIRTY" ELSE "",
     upload |-> sync /\ (NeedUpload(d) \/ NeedUpload(rows[c].dir))]

RenameForNormal(e, d, n, sync) ==
    LET c == e[3] IN
    /\ Operation("rename") /\ e \in dentry /\ ~Taken(d, n) /\ rows[c].in
    /\ sync \/ NeedUpload(e[1])
    /\ DoRename(e, d, n)
    /\ Detach(HandleRenameValue(c, d, n, sync))
    /\ UNCHANGED <<rows, trash, files, timer, syncing, lost, faults>>

(* DoCloudUnlink: the entry, the local file, and the row in a thread.  An  *)
(* entry whose file cannot be removed comes back.                          *)
DoCloudUnlink(e) ==
    LET c == e[3] IN
    /\ Operation("unlink") /\ e \in dentry
    /\ \/ /\ dentry' = dentry \ {e}
          /\ files' = files \ {c}
          /\ Detach([op |-> "unlink", id |-> c, dir |-> e[1], name |-> e[2],
                     dirty |-> "DELETED", upload |-> NeedUpload(e[1])])
          /\ UNCHANGED <<rows, trash, timer, syncing, lost, faults>>
       \/ /\ c \in files /\ faults < MaxFaults /\ faults' = faults + 1
          /\ UNCHANGED <<rows, dentry, trash, files, threads, timer, syncing, lost, cut>>

UnlinkTrash(c) ==
    /\ Operation("unlink") /\ c \in trash
    /\ trash' = trash \ {c}
    /\ files' = files \ {c}
    /\ Detach([op |-> "unlink", id |-> c, dir |-> rows[c].dir, name |-> rows[c].name,
               dirty |-> "DELETED", upload |-> NeedUpload(rows[c].dir)])
    /\ UNCHANGED <<rows, dentry, timer, syncing, lost, faults>>

(* The update of a rename: by cloud id, whatever the row holds by now.     *)
RdbUpdate(t) ==
    /\ rows' = [rows EXCEPT ![t.id] = IF ~@.in THEN @ ELSE
          [@ EXCEPT !.dir = t.dir, !.name = t.name,
                    !.dirty = IF t.dirty = "" THEN @ ELSE t.dirty]]
    /\ RegisterTriggerSync(t.upload)

Unlink(t) ==
    /\ rows' = [rows EXCEPT ![t.id] =
          IF ~@.in THEN @ ELSE IF t.upload THEN [@ EXCEPT !.dirty = "DELETED"] ELSE NoRow]
    /\ RegisterTriggerSync(t.upload)

RunThread(t) ==
    /\ t \in threads
    /\ threads' = threads \ {t}
    /\ \/ (IF t.op = "rename" THEN RdbUpdate(t) ELSE Unlink(t)) /\ UNCHANGED <<cut, faults>>
       \/ /\ faults < MaxFaults /\ faults' = faults + 1
          /\ cut' = cut \cup {t.id}
          /\ UNCHANGED <<rows, timer, lost>>
    /\ UNCHANGED <<dentry, trash, files, syncing, ops>>

-----------------------------------------------------------------------------
(* The recycle bin: the entry moves to the dentry file of the bin, the row *)
(* gets a time of recycling and keeps its directory and name.              *)
RecycleSetValue(r) == [r EXCEPT !.recycled = TRUE, !.dirty = MetaDirty(r)]

MoveIntoRecycleDentryfile(e) ==
    /\ dentry' = dentry \ {e}
    /\ trash' = trash \cup {e[3]}

HandleRecycle(e) ==
    LET c == e[3] IN
    /\ Operation("recycle") /\ e \in dentry /\ rows[c].in
    /\ Finish(c, [rows EXCEPT ![c] = RecycleSetValue(@)])
    /\ MoveIntoRecycleDentryfile(e)
    /\ RegisterTriggerSync(TRUE)
    /\ UNCHANGED <<files, threads, syncing>>

RemoveFromRecycleDentryfile(c, d, n) ==
    /\ trash' = trash \ {c}
    /\ dentry' = dentry \cup {<<d, n, c>>}

(* Out of the bin, to a free name: the caller's, or the old one with a     *)
(* number.                                                                 *)
HandleRestore(c, d, n) ==
    /\ Operation("recycle") /\ c \in trash /\ rows[c].in /\ ~Taken(d, n)
    /\ FinishCrossing(c, [rows EXCEPT ![c] = [@ EXCEPT
          !.recycled = FALSE, !.dirty = MetaDirty(rows[c]), !.dir = d, !.name = n]],
                      Awaited(c))
    /\ RemoveFromRecycleDentryfile(c, d, n)
    /\ RegisterTriggerSync(TRUE)
    /\ UNCHANGED <<files, threads, syncing>>

(* A file with an entry and no row is given one when its path in the bin   *)
(* is asked for.                                                           *)
GenerateNewRowId(e) ==
    /\ Operation("recycle") /\ e \in dentry /\ ~rows[e[3]].in
    /\ \A t \in threads : t.id # e[3]
    /\ \E s \in {"SYNCED", "FDIRTY"} :
          rows' = [rows EXCEPT ![e[3]] = [NoRow EXCEPT
             !.in = TRUE, !.dir = e[1], !.name = e[2], !.dirty = s]]
    /\ UNCHANGED <<dentry, trash, files, threads, timer, syncing, lost, cut, faults>>

(* A copy exists in the cloud first.  A dentry file that cannot be changed *)
(* ends the transaction with a commit all the same.                        *)
CopyFile(src, c, d, n) ==
    /\ Operation("copy") /\ rows[src].in /\ Fresh(c) /\ ~Taken(d, n)
    /\ rows' = [rows EXCEPT ![c] = [NoRow EXCEPT
          !.in = TRUE, !.dir = d, !.name = n, !.dirty = "COPY", !.pos = "CLOUD"]]
    /\ \/ dentry' = dentry \cup {<<d, n, c>>} /\ UNCHANGED <<cut, faults>>
       \/ /\ faults < MaxFaults /\ faults' = faults + 1
          /\ cut' = cut \cup {c} /\ UNCHANGED dentry
    /\ RegisterTriggerSync(TRUE)
    /\ UNCHANGED <<trash, files, threads, syncing>>

-----------------------------------------------------------------------------
(* The timer fires once; a TriggerSync that fails is only logged.          *)
OnTriggerSyncCallback ==
    /\ timer
    /\ timer' = FALSE
    /\ \/ syncing' = TRUE /\ UNCHANGED lost
       \/ MaxFaults > 0 /\ lost' = TRUE /\ UNCHANGED syncing
    /\ UNCHANGED <<rows, dentry, trash, files, threads, cut, ops, faults>>

(* The synchronisation engine is not in this repository: it uploads what   *)
(* is marked, removes the rows of deleted files, and stops when it finds   *)
(* nothing to do.                                                          *)
ToUpload(c) == rows[c].in /\ rows[c].dirty \in {"NEW", "FDIRTY", "MDIRTY", "COPY", "DELETED"}
               /\ NeedUpload(rows[c].dir)

Sync(c) ==
    /\ syncing /\ ToUpload(c)
    /\ rows' = [rows EXCEPT ![c] =
          IF @.dirty = "DELETED" THEN NoRow
          ELSE [@ EXCEPT !.dirty = "SYNCED",
                         !.pos = IF @ = "LOCAL" THEN "LOCAL_AND_CLOUD" ELSE @]]
    /\ UNCHANGED <<dentry, trash, files, threads, timer, syncing, lost, cut, ops, faults>>

SyncEnds ==
    /\ syncing /\ \A c \in Ids : ~ToUpload(c)
    /\ syncing' = FALSE
    /\ UNCHANGED <<rows, dentry, trash, files, threads, timer, lost, cut, ops, faults>>

(* The daemon dies with its threads and its timer.                         *)
Crash ==
    /\ faults < MaxFaults /\ faults' = faults + 1
    /\ threads' = {} /\ timer' = FALSE /\ lost' = TRUE
    /\ cut' = cut \cup {t.id : t \in threads}
    /\ UNCHANGED <<rows, dentry, trash, files, syncing, ops>>

Next ==
    \/ \E d \in Dirs, n \in Names, c \in Ids :
          \/ DoCreatFile(d, n, c) \/ MkDir(d, n, c) \/ HandleRestore(c, d, n)
          \/ \E src \in Ids : CopyFile(src, c, d, n)
          \/ \E e \in dentry, sync \in BOOLEAN : RenameForNormal(e, d, n, sync)
    \/ \E e \in dentry : DoCloudUnlink(e) \/ HandleRecycle(e) \/ GenerateNewRowId(e)
    \/ \E c \in Ids :
          \/ Write(c) \/ MtimeSetAttr(c) \/ ExtAttributeSetXattr(c) \/ HasTHMSetXattr(c)
          \/ UnlinkTrash(c) \/ Sync(c)
          \/ \E p \in Positions : LocationSetXattr(c, p)
    \/ \E t \in threads : RunThread(t)
    \/ OnTriggerSyncCallback \/ SyncEnds \/ Crash

Spec == Init /\ [][Next]_vars

-----------------------------------------------------------------------------
(* What an application sees: names of a directory come from the database,  *)
(* a name is resolved with the dentry file.                                *)
ReadDir(d) == {<<d, rows[c].name, c>> : c \in {x \in Ids :
                  rows[x].in /\ rows[x].dir = d /\ rows[x].dirty # "DELETED"
                  /\ ~rows[x].recycled}}
LookUp(d) == {e \in dentry : e[1] = d}

Settled(c) == c \notin cut /\ \A t \in threads : t.id # c

(* What a directory lists is what can be looked up in it: for every file   *)
(* none of whose updates failed, was lost in a crash or was overtaken by   *)
(* another thread or overtakes a restore from the bin, the row and the     *)
(* dentry name the same place once the detached updates of rename and      *)
(* unlink have run; and the recycle bin has the entries of the rows with a *)
(* time of recycling.                                                      *)
ListedIsFound ==
    \A c \in Ids : Settled(c) =>
        /\ \A d \in Dirs, n \in Names : <<d, n, c>> \in ReadDir(d) <=> <<d, n, c>> \in LookUp(d)
        /\ (c \in trash) <=> (rows[c].in /\ rows[c].recycled /\ rows[c].dirty # "DELETED")

(* No new content and no deletion of a file that takes part in the         *)
(* synchronisation is left without a trigger: the timer of                 *)
(* RegisterTriggerSync is armed or the synchronisation is at work.         *)
(* Excepted is a trigger lost to a failure, until the next one is armed.   *)
ChangesAreScheduled ==
    \A c \in Ids :
        Settled(c) /\ rows[c].in /\ rows[c].dirty \in {"NEW", "FDIRTY", "DELETED"}
        /\ NeedUpload(rows[c].dir) => timer \/ syncing \/ lost

(* A row marked TYPE_DELETED stays so until the synchronisation removes    *)
(* it, as the comment of RDBUnlinkAsync says.                              *)
DeletedStaysDeleted ==
    [][\A c \in Ids : rows[c].in /\ rows[c].dirty = "DELETED" =>
          rows'[c].dirty = "DELETED" \/ ~rows'[c].in]_vars
=============================================================================
