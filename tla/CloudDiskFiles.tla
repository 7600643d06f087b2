---------------------------- MODULE CloudDiskFiles ----------------------------
(***************************************************************************)
(* The file operations of the cloud disk (file_operations_cloud.cpp and    *)
(* file_operations_helper.cpp): the inodes and the names by which a rename *)
(* finds them (localIdCache), open files (fileCache), and the download     *)
(* sessions that opens of one file share (readSessionCache, sessionCount). *)
(* One directory and the trash; the rows and directory entries behind dir  *)
(* are CloudDiskStore's.                                                   *)
(***************************************************************************)
EXTENDS Integers, FiniteSets

CONSTANTS
    Names, Files,
    InCloud,        \* names -> files that exist in the cloud only, at first
    Thumbs,         \* files that are not FILE_TYPE_CONTENT
    MaxOps, MaxOpens, MaxFaults

VARIABLES
    dir,        \* name -> file or None: the directory
    bin,        \* entries of the trash, named name_row: [name, row, file]
    inodes,     \* file -> [refs, parent, name] in inodeCache; refs = 0: no inode
    key,        \* localIdCache of the directory: name -> file or None
    binKey,     \* localIdCache of the trash: [name, row, file]
    reused,     \* names given to a file while their key leads to another one
    astray,     \* files moved by a rename whose key did not lead to them, or led to them wrongly
    locals,     \* files with a local copy
    cache,      \* readSessionCache: file -> session, 0 for none
    counts,     \* session -> sessionCount
    handles,    \* fileCache: fh -> [file, kind, session, dirty]
    waiting,    \* opens that found no local copy and wait for the sessionLock: [fh, file]
    cleaned,    \* files whose downloaded copy was removed again
    lost,       \* open files of the kernel that fileCache does not have under their fh
    opening,    \* file -> the open that holds its sessionLock: [fh, session], or NoOpen
    reading,    \* reads whose task has not ended: [fh, at]
    ops, fileId, faults

nameVars == <<dir, bin, inodes, key, binKey, reused, astray>>
copyVars == <<locals, cleaned>>
openVars == <<cache, counts, handles, waiting, lost, opening, reading, fileId>>
vars == <<nameVars, copyVars, openVars, ops, faults>>

None == "none"
NoInode == [refs |-> 0, parent |-> None, name |-> None]
Dir == "directory"
Trash == "trash"
BinNames == [name : Names, row : Files, file : Files]
NoOpen == [fh |-> 0, session |-> 0]
NoHandles == [h \in {} |-> None]
Sessions == 1..MaxOpens

TypeOK ==
    /\ dir \in [Names -> Files \cup {None}] /\ key \in [Names -> Files \cup {None}]
    /\ bin \subseteq BinNames /\ binKey \subseteq BinNames /\ locals \subseteq Files
    /\ cache \in [Files -> 0..MaxOpens] /\ counts \in [Sessions -> 0..MaxOpens]
    /\ DOMAIN handles \subseteq 0..MaxOpens /\ lost \subseteq 1..MaxOpens

Init ==
    /\ dir = [n \in Names |-> IF n \in DOMAIN InCloud THEN InCloud[n] ELSE None]
    /\ bin = {} /\ binKey = {} /\ reused = {} /\ astray = {}
    /\ inodes = [f \in Files |-> NoInode]
    /\ key = [n \in Names |-> None]
    /\ locals = {} /\ cleaned = {} /\ waiting = {}
    /\ cache = [f \in Files |-> 0] /\ counts = [s \in Sessions |-> 0]
    /\ handles = NoHandles /\ lost = {}
    /\ opening = [f \in Files |-> NoOpen]
    /\ reading = {}
    /\ ops = 0 /\ fileId = 0 /\ faults = 0

Count == ops < MaxOps /\ ops' = ops + 1
Fault == faults < MaxFaults /\ faults' = faults + 1
Known(f) == f # None /\ inodes[f].refs > 0
InBin(f) == \E e \in bin : e.file = f
Linked(f) == InBin(f) \/ \E n \in Names : dir[n] = f
UsedBy(f) == {h \in DOMAIN handles : handles[h].file = f}
InUse(f) == UsedBy(f) # {} \/ opening[f] # NoOpen \/ \E w \in waiting : w.file = f

-----------------------------------------------------------------------------
(* Names                                                                   *)

\* The key of the name an inode had.  A name is not reused any more when its
\* key is gone.
EraseKey(f, k) ==
    [n \in Names |-> IF inodes[f].parent = Dir /\ n = inodes[f].name THEN None ELSE k[n]]
StillReused == {n \in reused : key'[n] # None}

UpdateChildCache(f) == IF Known(f) THEN EraseKey(f, key) ELSE key

\* A key that is already there is not changed.
InitLocalIdCache(n, f, k) == [x \in Names |-> IF x = n /\ k[n] = None THEN f ELSE k[x]]

Inode(f, parent, n) == [inodes EXCEPT ![f] = [refs |-> @.refs + 1, parent |-> parent, name |-> n]]

DoLookup(n, f) ==
    /\ inodes' = Inode(f, Dir, n)
    /\ key' = InitLocalIdCache(n, f, UpdateChildCache(f))

DoCloudLookup(n) ==
    /\ Count /\ dir[n] # None
    /\ DoLookup(n, dir[n])
    /\ reused' = StillReused /\ astray' = astray \ {dir[n]}
    /\ UNCHANGED <<dir, bin, binKey, copyVars, openVars, faults>>

\* A file of the trash is looked up by the name of its entry; its inode gets
\* the name without the row.
LookupRecycledFile(e) ==
    /\ Count /\ e \in bin
    /\ inodes' = Inode(e.file, Trash, e.name)
    /\ key' = UpdateChildCache(e.file)
    /\ reused' = StillReused
    /\ astray' = IF e.row = e.file THEN astray \ {e.file} ELSE astray
    /\ binKey' = IF \E k \in binKey : k.name = e.name /\ k.row = e.row THEN binKey ELSE binKey \cup {e}
    /\ UNCHANGED <<dir, bin, copyVars, openVars, faults>>

\* PutCloudDiskInode and PutLocalId.
PutInode(f) ==
    /\ inodes' = [inodes EXCEPT ![f] = NoInode]
    /\ key' = EraseKey(f, key)

\* The kernel gives back all its lookups of an inode it does not use.
Forget(f) ==
    /\ Known(f) /\ ~InUse(f)
    /\ PutInode(f)
    /\ reused' = StillReused
    /\ UNCHANGED <<dir, bin, binKey, astray, copyVars, openVars, ops, faults>>

Reuse(n, f) == IF key[n] \notin {None, f} THEN reused \cup {n} ELSE reused

\* MkNod and Create make the row and the entry and look the file up.
DoCreatFile(n, f) ==
    /\ Count /\ dir[n] = None /\ ~Linked(f) /\ ~Known(f) /\ f \notin locals /\ ~InUse(f)
    /\ \A m \in Names : key[m] # f
    /\ \A e \in bin \cup binKey : f \notin {e.row, e.file}
    /\ dir' = [dir EXCEPT ![n] = f]
    /\ reused' = Reuse(n, f)
    /\ DoLookup(n, f)
    /\ locals' = locals \cup {f} /\ cleaned' = cleaned \ {f}
    /\ UNCHANGED <<bin, binKey, astray>>

MkNod(n, f) ==
    /\ DoCreatFile(n, f)
    /\ UNCHANGED <<openVars, faults>>

\* InitFileAttr runs before fi->fh is given its value: fileCache gets the file
\* under 0, and the kernel's handle is not in it.
Create(n, f) ==
    /\ DoCreatFile(n, f) /\ fileId < MaxOpens
    /\ fileId' = fileId + 1
    /\ handles' = [h \in DOMAIN handles \cup {0} |->
                     IF h = 0 THEN [file |-> f, kind |-> "local", session |-> 0, dirty |-> TRUE] ELSE handles[h]]
    /\ lost' = lost \cup {fileId + 1}
    /\ UNCHANGED <<cache, counts, waiting, opening, reading, faults>>

Removed(f) == locals' = locals \ {f} /\ cleaned' = IF f \in locals THEN cleaned \cup {f} ELSE cleaned

DoCloudUnlink(n) ==
    /\ Count /\ dir[n] # None
    /\ dir' = [dir EXCEPT ![n] = None]
    /\ Removed(dir[n])
    /\ UNCHANGED <<bin, inodes, key, binKey, reused, astray, openVars, faults>>

\* The same in the trash.
DoTrashUnlink(e) ==
    /\ Count /\ e \in bin
    /\ bin' = bin \ {e}
    /\ Removed(e.file)
    /\ UNCHANGED <<dir, inodes, key, binKey, reused, astray, openVars, faults>>

\* The file f was told that the file g has moved.
Strays(f, g) == IF f = g THEN astray ELSE astray \cup ({f, g} \ {None})

\* The inode that localIdCache has for the old name gets the new one; the key
\* of the old name stays.
RenameForNormal(n, m) ==
    /\ Count /\ dir[n] # None /\ dir[m] = None
    /\ dir' = [dir EXCEPT ![m] = dir[n], ![n] = None]
    /\ reused' = Reuse(m, dir[n])
    /\ inodes' = IF Known(key[n]) THEN [inodes EXCEPT ![key[n]].name = m, ![key[n]].parent = Dir] ELSE inodes
    /\ astray' = Strays(IF Known(key[n]) THEN key[n] ELSE None, dir[n])
    /\ UNCHANGED <<bin, key, binKey, copyVars, openVars, faults>>

\* RenameForTrash gives the inode its new name and parent.
MovedToTrash(f, m) == [inodes EXCEPT ![f].name = m, ![f].parent = Trash]

\* A move to the trash: HandleRecycle changes the row of the file that
\* localIdCache has for the name, and moves the entry with its inode's name.
RenameForTrash(n, m) ==
    /\ Count /\ dir[n] # None /\ Known(key[n])
    /\ LET f == key[n]
           old == inodes[f].name
       IN /\ dir[old] # None
          /\ ~\E e \in bin : e.name = old /\ e.row = f
          /\ bin' = bin \cup {[name |-> old, row |-> f, file |-> dir[old]]}
          /\ dir' = [dir EXCEPT ![old] = None]
          /\ inodes' = MovedToTrash(f, m)
          /\ astray' = Strays(f, dir[old])
    /\ UNCHANGED <<key, binKey, reused, copyVars, openVars, faults>>

\* A move out of the trash: HandleRestore looks for the entry by the inode's
\* name and the row of its file.
RestoreFromTrash(e, m) ==
    /\ Count /\ e \in bin /\ dir[m] = None
    /\ \E k \in binKey : k.name = e.name /\ k.row = e.row /\ Known(k.file) /\
         \E x \in bin :
            /\ x.name = inodes[k.file].name /\ x.row = k.file
            /\ bin' = bin \ {x}
            /\ dir' = [dir EXCEPT ![m] = x.file]
            /\ reused' = Reuse(m, x.file)
            /\ inodes' = [inodes EXCEPT ![k.file].name = m, ![k.file].parent = Dir]
            /\ astray' = Strays(k.file, x.file)
    /\ UNCHANGED <<key, binKey, copyVars, openVars, faults>>

-----------------------------------------------------------------------------
(* Open, read, write, release                                              *)

NewHandle(h, f, kind, s) ==
    [x \in DOMAIN handles \cup {h} |->
        IF x = h THEN [file |-> f, kind |-> kind, session |-> s, dirty |-> FALSE] ELSE handles[x]]
Without(h) == [x \in DOMAIN handles \ {h} |-> handles[x]]

\* A file with a local copy is opened there.
OpenLocal(f) ==
    /\ Known(f) /\ f \in locals /\ fileId < MaxOpens
    /\ fileId' = fileId + 1
    /\ handles' = NewHandle(fileId + 1, f, "local", 0)
    /\ UNCHANGED <<nameVars, copyVars, waiting, cache, counts, lost, opening, reading, ops, faults>>

\* The entry CloudOpen looks up: the inode's recorded name.
HasEntry(f) == inodes[f].parent = Dir /\ dir[inodes[f].name] # None

\* A file without one is opened through a session.
OpenInCloud(f) ==
    /\ Known(f) /\ f \notin locals /\ fileId < MaxOpens /\ HasEntry(f)
    /\ fileId' = fileId + 1
    /\ waiting' = waiting \cup {[fh |-> fileId + 1, file |-> f]}
    /\ UNCHANGED <<nameVars, copyVars, cache, counts, handles, lost, opening, reading, ops, faults>>

\* HandleNewSession: the cached session of the file, or a new one.
HandleNewSession(f, fh) == IF cache[f] # 0 THEN cache[f] ELSE fh

\* HandleCloudReopen: a thumbnail is opened where the first open put it.  If it
\* is not there the open fails and its file stays in fileCache.
HandleCloudReopen(f, h, s) ==
    /\ handles' = NewHandle(h, f, IF f \notin Thumbs THEN "cloud" ELSE IF f \in locals THEN "local" ELSE "stuck", s)
    /\ counts' = IF f \in Thumbs THEN counts ELSE [counts EXCEPT ![s] = @ + 1]

\* CloudOpen under the inode's sessionLock: a session that others use serves
\* this open too; otherwise the open waits for its initialisation.
CloudOpen(w) ==
    /\ w \in waiting /\ opening[w.file] = NoOpen
    /\ waiting' = waiting \ {w}
    /\ LET s == HandleNewSession(w.file, w.fh) IN
        /\ cache' = [cache EXCEPT ![w.file] = s]
        /\ IF counts[s] > 0
           THEN HandleCloudReopen(w.file, w.fh, s) /\ UNCHANGED opening
           ELSE /\ opening' = [opening EXCEPT ![w.file] = [fh |-> w.fh, session |-> s]]
                /\ UNCHANGED <<handles, counts>>
    /\ UNCHANGED <<nameVars, copyVars, lost, reading, fileId, ops, faults>>

\* The session is initialised: a thumbnail is downloaded, moved to its place
\* and opened there, and its session counts the open all the same.
HandleCloudOpenSuccess(f) ==
    /\ opening[f] # NoOpen
    /\ LET o == opening[f] IN
        /\ handles' = NewHandle(o.fh, f, IF f \in Thumbs THEN "local" ELSE "cloud", o.session)
        /\ counts' = [counts EXCEPT ![o.session] = @ + 1]
    /\ locals' = IF f \in Thumbs THEN locals \cup {f} ELSE locals
    /\ opening' = [opening EXCEPT ![f] = NoOpen]
    /\ UNCHANGED <<nameVars, cleaned, waiting, cache, lost, reading, fileId, ops, faults>>

\* An error of the cloud, or OPEN_TIMEOUT_S is over.
HandleOpenFail(f) ==
    /\ opening[f] # NoOpen /\ Fault
    /\ cache' = [cache EXCEPT ![f] = 0]
    /\ opening' = [opening EXCEPT ![f] = NoOpen]
    /\ UNCHANGED <<nameVars, copyVars, waiting, counts, handles, lost, reading, fileId, ops>>

\* A read through the session: its task reports the end of the download before
\* the number of bytes, so the request may answer in between.
DoCloudRead(h) ==
    /\ h \in DOMAIN handles /\ handles[h].kind = "cloud"
    /\ ~\E x \in reading : x.fh = h
    /\ reading' = reading \cup {[fh |-> h, at |-> "download"]}
    /\ UNCHANGED <<nameVars, copyVars, waiting, cache, counts, handles, lost, opening, fileId, ops, faults>>

ReadFinishes(x) ==
    /\ x \in reading /\ x.at = "download"
    /\ reading' = (reading \ {x}) \cup {[x EXCEPT !.at = "finished"]}
    /\ UNCHANGED <<nameVars, copyVars, waiting, cache, counts, handles, lost, opening, fileId, ops, faults>>

\* The answer: the data, none (READ_TIMEOUT_S), or an early empty one.
HandleReadCompletion(x) ==
    /\ x \in reading
    /\ reading' = reading \ {x}
    /\ IF x.at = "download" THEN Fault ELSE UNCHANGED faults
    /\ UNCHANGED <<nameVars, copyVars, waiting, cache, counts, handles, lost, opening, fileId, ops>>

WriteBuf(h) ==
    /\ h \in DOMAIN handles \ {0} /\ handles[h].kind = "local" /\ ~handles[h].dirty
    /\ handles' = [handles EXCEPT ![h].dirty = TRUE]
    /\ UNCHANGED <<nameVars, copyVars, waiting, cache, counts, lost, opening, reading, fileId, ops, faults>>

\* HandleLocalClose drops the handle's session without counting it down; the
\* last handle of a session closes it.
HandleRelease(h) ==
    LET s == handles[h].session
        f == handles[h].file
        last == counts[s] = 1
    IN IF handles[h].kind # "cloud" THEN UNCHANGED <<counts, cache>>
       ELSE /\ counts' = [counts EXCEPT ![s] = @ - 1]
            /\ cache' = IF last THEN [cache EXCEPT ![f] = 0] ELSE cache

Release(h) ==
    /\ h \in DOMAIN handles \ {0} /\ handles[h].kind # "stuck"
    /\ Known(handles[h].file) /\ opening[handles[h].file] = NoOpen
    /\ ~\E x \in reading : x.fh = h
    /\ HandleRelease(h)
    /\ handles' = Without(h)
    /\ UNCHANGED <<nameVars, copyVars, waiting, lost, opening, reading, fileId, ops, faults>>

\* Release of a handle that Create made: fileCache does not know it.
ReleaseLost(h) ==
    /\ h \in lost
    /\ lost' = lost \ {h}
    /\ UNCHANGED <<nameVars, copyVars, waiting, cache, counts, handles, opening, reading, fileId, ops, faults>>

\* The local copy of a file that is in the cloud is cleaned.
EvictLocal(f) ==
    /\ Count /\ f \in locals /\ UsedBy(f) = {}
    /\ Removed(f)
    /\ UNCHANGED <<nameVars, openVars, faults>>

Next ==
    \/ \E n \in Names :
        \/ DoCloudLookup(n) \/ DoCloudUnlink(n)
        \/ \E f \in Files : MkNod(n, f) \/ Create(n, f)
        \/ \E m \in Names : RenameForNormal(n, m) \/ RenameForTrash(n, m)
    \/ \E e \in bin :
        LookupRecycledFile(e) \/ DoTrashUnlink(e) \/ \E m \in Names : RestoreFromTrash(e, m)
    \/ \E f \in Files :
        Forget(f) \/ OpenLocal(f) \/ OpenInCloud(f) \/ HandleCloudOpenSuccess(f) \/ HandleOpenFail(f) \/ EvictLocal(f)
    \/ \E w \in waiting : CloudOpen(w)
    \/ \E h \in DOMAIN handles : DoCloudRead(h) \/ WriteBuf(h) \/ Release(h)
    \/ \E x \in reading : ReadFinishes(x) \/ HandleReadCompletion(x)
    \/ \E h \in lost : ReleaseLost(h)

Spec == Init /\ [][Next]_vars

-----------------------------------------------------------------------------
\* The handles that read a content file through a session share the cached
\* one, sessionCount is their number, and the session is cached exactly while
\* there are such handles: the release that closes a session closes it under
\* nobody, and no session is left when opens fail or time out.
ReadSessionsAreCounted ==
    \A f \in Files \ Thumbs : opening[f] = NoOpen =>
        LET users == {h \in UsedBy(f) : handles[h].kind = "cloud"} IN
        /\ cache[f] # 0 <=> users # {}
        /\ cache[f] # 0 => counts[cache[f]] = Cardinality(users)
        /\ \A h \in users : handles[h].session = cache[f]

\* An open of a thumbnail that finds its session in use finds the copy that
\* the first open made: it is left without a file only when the copy was
\* removed since.
ThumbnailsAreThere ==
    \A h \in DOMAIN handles : handles[h].kind = "stuck" => handles[h].file \in cleaned

\* A rename finds the file that has the name: the key of a name leads to the
\* file in the directory, whatever lookups, renames, moves to the trash and
\* back, removals and forgets came before.  The exception the code allows is
\* a name given to another file while its key was still there, until the key
\* is erased.
RenamesFindTheNamedFile ==
    \A n \in Names \ reused : dir[n] # None /\ Known(key[n]) => key[n] = dir[n]

\* An inode knows where its file is, in the directory or in the trash, and an
\* entry of the trash has the row of its own file, by which it is restored.
\* Excepted are, up to their next lookup, the files that a rename moved
\* although the key of the name led to another file, or to none.
FilesAreWhereTheirInodesSay ==
    \A f \in Files \ astray :
        /\ Known(f) /\ InBin(f) => inodes[f].parent = Trash
        /\ \A n \in Names : Known(f) /\ dir[n] = f => inodes[f].parent = Dir /\ inodes[f].name = n
        /\ \A e \in bin : e.file = f => e.row = f
=============================================================================
