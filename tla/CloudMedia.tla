------------------------------ MODULE CloudMedia ------------------------------
(***************************************************************************)
(* One file of the cloud media file system (fuse_manager.cpp): the         *)
(* kernel's lookups and forgets of its inode, the opens and releases that  *)
(* share one download session, and the pages of its cache file.            *)
(*                                                                         *)
(* A CONTENT file (Content = TRUE, a video) is read through the session    *)
(* and its cache file; any other file (a thumbnail) is downloaded by the   *)
(* open and read from the local copy. The requests run on the threads of   *)
(* libfuse; session creation, page reads and prefetches are tasks of their *)
(* own, which may outlive the request that submitted them.                 *)
(***************************************************************************)
EXTENDS Integers, FiniteSets

CONSTANTS
    Content,        \* mBase->fileType = FILE_TYPE_CONTENT
    Threads,        \* threads that look up or forget
    LastPage,       \* the file has pages 0..LastPage
    PageSize,       \* MAX_READ_SIZE
    MaxLookups, MaxOpens, MaxReads, MaxFaults    \* bounds

VARIABLES
    nodes,      \* [cache: the object in inodeCache or 0, ref: refCount of each object, kernel: lookups the kernel holds]
    calls,      \* per thread: the lookup or forget it is in
    raced,      \* TRUE once a lookup or forget met another one half-way
    session,    \* readSession, 0 for null; every created session has a new number
    count,      \* sessionRefCount
    handles,    \* the fh of opened files, in cloudFdCache; handles[fh]: opened on the local copy
    opening,    \* the open that holds sessionLock, or NoOpen
    inits,      \* tasks of DoCloudOpen: [open, loaded]
    pages,      \* readCacheMap: page -> "ahead" (PG_READAHEAD only) or "uptodate"
    index,      \* pages with HAS_CACHED in cacheFileIndex
    have,       \* pages whose data is in the cache file
    saved,      \* pages with HAS_CACHED in the cache file's attribute
    keep,       \* the cache file's keep attribute is set
    tasks,      \* reads of whole pages: [page, session, prefetch, at]
    stale,      \* pages marked by a task of an earlier session
    files,      \* the temporary and the local copy of a file that is not CONTENT
    opens, reads, faults

nodeVars == <<nodes, calls, raced>>
openVars == <<session, count, handles, opening, inits, files, opens>>
pageVars == <<pages, index, have, saved, keep, tasks, stale, reads>>
vars == <<nodeVars, openVars, pageVars, faults>>

Pages == 0..LastPage
NoOpen == [fh |-> 0, result |-> "none"]
NoPages == [p \in {} |-> "ahead"]
Idle == [op |-> "idle", obj |-> 0]

TypeOK ==
    /\ nodes.cache \in 0..MaxLookups /\ nodes.kernel \in 0..MaxLookups
    /\ session \in 0..MaxOpens /\ count \in 0..MaxOpens
    /\ DOMAIN handles \subseteq 1..MaxOpens
    /\ opening.fh \in 0..MaxOpens /\ opening.result \in {"none", "ok", "failed"}
    /\ DOMAIN pages \subseteq Pages
    /\ index \subseteq Pages /\ have \subseteq Pages /\ saved \subseteq Pages
    /\ files \subseteq {"tmp", "local"}

Init ==
    /\ nodes = [cache |-> 0, ref |-> [o \in 1..MaxLookups |-> 0], kernel |-> 0]
    /\ calls = [t \in Threads |-> Idle]
    /\ raced = FALSE
    /\ session = 0 /\ count = 0 /\ handles = [f \in {} |-> FALSE]
    /\ opening = NoOpen /\ inits = {}
    /\ pages = NoPages /\ index = {} /\ have = {} /\ saved = {} /\ keep = FALSE
    /\ tasks = {} /\ stale = {} /\ files = {}
    /\ opens = 0 /\ reads = 0 /\ faults = 0

Fault == faults < MaxFaults /\ faults' = faults + 1

-----------------------------------------------------------------------------
(* Lookup and forget: refCount and inodeCache are not changed under one    *)
(* lock                                                                    *)

Overlaps(t) == \E u \in Threads \ {t} : calls[u] # Idle

\* FindNode: the object in inodeCache; without one the thread makes a new object.
FindNode(t) ==
    /\ calls[t] = Idle
    /\ \E o \in 1..MaxLookups :
        /\ IF nodes.cache # 0 THEN o = nodes.cache
           ELSE /\ nodes.ref[o] = 0
                /\ \A u \in Threads : calls[u].obj # o
                /\ \A q \in 1..(o - 1) : nodes.ref[q] # 0 \/ \E u \in Threads : calls[u].obj = q
        /\ calls' = [calls EXCEPT ![t] = [op |-> IF nodes.cache = 0 THEN "create" ELSE "lookup", obj |-> o]]
    /\ raced' = (raced \/ Overlaps(t))
    /\ UNCHANGED <<nodes, openVars, pageVars, faults>>

CloudDoLookupHelper(t) ==
    /\ calls[t].op \in {"create", "lookup"}
    /\ nodes.kernel < MaxLookups
    /\ nodes' = [nodes EXCEPT !.ref[calls[t].obj] = @ + 1, !.kernel = @ + 1,
                              !.cache = IF calls[t].op = "create" THEN calls[t].obj ELSE @]
    /\ calls' = [calls EXCEPT ![t] = Idle]
    /\ UNCHANGED <<raced, openVars, pageVars, faults>>

\* The kernel gives back n lookups of an inode that no open file uses.
PutNode(t, n) ==
    /\ calls[t] = Idle /\ nodes.cache # 0
    /\ n \in 1..nodes.kernel /\ (n = nodes.kernel => handles = [f \in {} |-> FALSE] /\ opening = NoOpen)
    /\ LET o == nodes.cache IN
        /\ nodes' = [nodes EXCEPT !.ref[o] = @ - n, !.kernel = @ - n]
        /\ calls' = [calls EXCEPT ![t] = IF nodes.ref[o] = n THEN [op |-> "erase", obj |-> o] ELSE Idle]
    /\ raced' = (raced \/ Overlaps(t))
    /\ UNCHANGED <<openVars, pageVars, faults>>

EraseNode(t) ==
    /\ calls[t].op = "erase"
    /\ nodes' = [nodes EXCEPT !.cache = 0]
    /\ calls' = [calls EXCEPT ![t] = Idle]
    /\ UNCHANGED <<raced, openVars, pageVars, faults>>

-----------------------------------------------------------------------------
(* Open and release, under sessionLock                                     *)

IsLocalFile == "local" \in files
NeedReCloudOpen == ~Content /\ ~IsLocalFile
Closed(fh) == [f \in DOMAIN handles \ {fh} |-> handles[f]]
Opened(fh) == [f \in DOMAIN handles \cup {fh} |-> IF f = fh THEN ~Content /\ IsLocalFile ELSE handles[f]]

CanOpen == nodes.cache # 0 /\ nodes.kernel > 0 /\ opening = NoOpen /\ opens < MaxOpens

\* A session exists and serves the new handle too.
HandleReopen ==
    /\ CanOpen /\ session # 0 /\ ~NeedReCloudOpen
    /\ opens' = opens + 1
    /\ count' = count + 1
    /\ handles' = Opened(opens + 1)
    /\ UNCHANGED <<nodeVars, session, opening, inits, files, pageVars, faults>>

\* No session yet, or a thumbnail whose local copy is gone: a new session and
\* a task that initialises it; the request waits with sessionLock held.
CreateReadSession ==
    /\ CanOpen /\ (session = 0 \/ NeedReCloudOpen)
    /\ opens' = opens + 1
    /\ session' = opens + 1
    /\ opening' = [fh |-> opens + 1, result |-> "none"]
    /\ inits' = inits \cup {[open |-> opens + 1, loaded |-> FALSE]}
    /\ UNCHANGED <<nodeVars, count, handles, files, pageVars, faults>>

\* The data base is missing, or creates no session: the open fails.
CloudOpenFails ==
    /\ CanOpen /\ Fault
    /\ opens' = opens + 1
    /\ session' \in IF session = 0 \/ NeedReCloudOpen THEN {session, 0} ELSE {session}
    /\ UNCHANGED <<nodeVars, count, handles, opening, inits, files, pageVars>>

\* The task reads the attribute of the cache file; it does not hold sessionLock.
LoadCacheFileIndex(i) ==
    /\ i \in inits /\ ~i.loaded
    /\ IF Content
       THEN /\ index' = saved
            /\ pages' = [p \in DOMAIN pages \cup saved |-> IF p \in saved THEN "uptodate" ELSE pages[p]]
       ELSE UNCHANGED <<index, pages>>
    /\ inits' = (inits \ {i}) \cup {[i EXCEPT !.loaded = TRUE]}
    /\ UNCHANGED <<nodeVars, session, count, handles, opening, files, opens, have, saved, keep, tasks, stale, reads, faults>>

\* InitSession on the session the inode has by now, which for the task of an
\* open that timed out is another open's or none; a thumbnail is downloaded.
DoSessionInit(i) ==
    /\ i \in inits /\ i.loaded
    /\ inits' = inits \ {i}
    /\ \E ok \in {session # 0, FALSE} :
        /\ IF session # 0 /\ ~ok THEN Fault ELSE UNCHANGED faults
        /\ files' = IF ok /\ ~Content THEN files \cup {"tmp"} ELSE files
        /\ opening' = IF opening.fh = i.open THEN [opening EXCEPT !.result = IF ok THEN "ok" ELSE "failed"] ELSE opening
    /\ UNCHANGED <<nodeVars, session, count, handles, opens, pageVars>>

\* CloudOpenOnLocal moves the downloaded thumbnail to its place and opens it
\* there.  A kernel entry that cannot be removed, or a local file that cannot be
\* opened, still is a success: the handle then has no local file.
CloudOpenOnLocal(moved, onLocal) ==
    /\ count' = count + 1
    /\ files' = IF moved THEN (files \ {"tmp"}) \cup {"local"} ELSE files
    /\ handles' = [f \in DOMAIN handles \cup {opening.fh} |-> IF f = opening.fh THEN onLocal ELSE handles[f]]
    /\ UNCHANGED session

HandleOpenResult ==
    /\ opening.result \in {"ok", "failed"}
    /\ opening' = NoOpen
    /\ \/ /\ opening.result = "ok"
          /\ \/ CloudOpenOnLocal(~Content, ~Content) /\ UNCHANGED faults
             \/ ~Content /\ Fault /\ \E moved \in BOOLEAN : CloudOpenOnLocal(moved, FALSE)
       \/ /\ \/ opening.result = "failed" /\ UNCHANGED faults
             \/ opening.result = "ok" /\ ~Content /\ Fault    \* the move fails
          /\ session' = 0
          /\ UNCHANGED <<files, count, handles>>
    /\ UNCHANGED <<nodeVars, inits, opens, pageVars>>

\* OPEN_TIMEOUT_S: the session is cancelled and forgotten, the task runs on.
OpenTimesOut ==
    /\ opening.fh # 0 /\ opening.result = "none" /\ Fault
    /\ opening' = NoOpen
    /\ session' = 0
    /\ UNCHANGED <<nodeVars, count, handles, inits, files, opens, pageVars>>

\* The last release cancels and closes the session of a CONTENT file.  Close
\* removes the cache file, and its attributes with it, unless it is to be kept;
\* the index is then saved in the attribute.
CloudRelease(fh) ==
    /\ fh \in DOMAIN handles /\ opening = NoOpen
    /\ count' = count - 1
    /\ handles' = Closed(fh)
    /\ IF count = 1
       THEN /\ session' = 0
            /\ pages' = NoPages
            /\ IF Content /\ session # 0 /\ ~keep
               THEN have' = {} /\ saved' = {}
               ELSE have' = have /\ saved' = IF Content THEN index ELSE saved
       ELSE UNCHANGED <<session, pages, have, saved>>
    /\ UNCHANGED <<nodeVars, opening, inits, files, opens, index, keep, tasks, stale, reads, faults>>

\* The ioctl: once set, the attribute stays.
SetKeepCache ==
    /\ handles # [f \in {} |-> FALSE] /\ session # 0 /\ Content /\ ~keep
    /\ keep' = TRUE
    /\ UNCHANGED <<nodeVars, openVars, pages, index, have, saved, tasks, stale, reads, faults>>

\* The local copy of a thumbnail is removed behind the file system's back.
RemoveLocal ==
    /\ IsLocalFile /\ files' = files \ {"local"}
    /\ UNCHANGED <<nodeVars, session, count, handles, opening, inits, opens, pageVars, faults>>

-----------------------------------------------------------------------------
(* Reads                                                                   *)

\* The slices of a read: to the end of its first page, and the page after it.
InitReadSlice(size, off) ==
    LET tail == ((off + size) \div PageSize) * PageSize
        atEnd == (off + size) % PageSize = 0
    IN [offHead |-> off,
        sizeHead |-> IF tail > off THEN tail - off ELSE tail + PageSize - off,
        offTail |-> IF atEnd THEN tail - PageSize ELSE tail,
        sizeTail |-> IF tail > off /\ ~atEnd THEN PageSize ELSE 0]

\* A read of a page that is not cached: aligned reads are tasks for the page,
\* and the pages after it are prefetched (CACHE_PAGE_NUM = 1 here).
DoCloudRead(size, off) ==
    /\ Content /\ handles # [f \in {} |-> FALSE] /\ session # 0 /\ reads < MaxReads
    /\ off + size <= (LastPage + 1) * PageSize
    /\ reads' = reads + 1
    /\ LET s == InitReadSlice(size, off)
           last == IF s.sizeTail > 0 THEN s.offTail ELSE s.offHead
           slices == {s.offHead} \cup IF s.sizeTail > 0 THEN {s.offTail} ELSE {}
           wanted == {o \div PageSize : o \in {x \in slices : x % PageSize = 0}}
           ahead == (last \div PageSize) + 1
           new(p, pre) == [page |-> p, session |-> session, prefetch |-> pre, at |-> "start"]
       IN tasks' = tasks \cup {new(p, FALSE) : p \in wanted \ index}
                         \cup {new(p, TRUE) : p \in (Pages \cap {ahead}) \ index}
    /\ UNCHANGED <<nodeVars, openVars, pages, index, have, saved, keep, stale, faults>>

\* The task enters the page in readCacheMap; a prefetch of a page that has an
\* entry ends, a read of one waits for it and then reads.
EnterPage(k) ==
    /\ k \in tasks /\ k.at = "start" /\ opening = NoOpen
    /\ \/ /\ k.page \notin DOMAIN pages
          /\ pages' = [p \in DOMAIN pages \cup {k.page} |-> IF p = k.page THEN "ahead" ELSE pages[p]]
          /\ tasks' = (tasks \ {k}) \cup {[k EXCEPT !.at = "read"]}
       \/ /\ k.page \in DOMAIN pages
          /\ IF k.prefetch THEN tasks' = tasks \ {k}
             ELSE /\ pages[k.page] = "uptodate"
                  /\ tasks' = (tasks \ {k}) \cup {[k EXCEPT !.at = "read"]}
          /\ UNCHANGED pages
    /\ UNCHANGED <<nodeVars, openVars, index, have, saved, keep, stale, reads, faults>>

\* A waiting read gives up: cancelled, or READ_TIMEOUT_S has passed.
CheckAndWaitFails(k) ==
    /\ k \in tasks /\ k.at = "start" /\ ~k.prefetch /\ k.page \in DOMAIN pages
    /\ tasks' = tasks \ {k}
    /\ UNCHANGED <<nodeVars, openVars, pages, index, have, saved, keep, stale, reads, faults>>

\* PRead downloads the page into the cache file; a cancelled session fails.
PRead(k) ==
    /\ k \in tasks /\ k.at = "read"
    /\ \E ok \in {k.session = session, FALSE} :
        /\ IF k.session = session /\ ~ok THEN Fault ELSE UNCHANGED faults
        /\ have' = IF ok THEN have \cup {k.page} ELSE have
        /\ tasks' = (tasks \ {k}) \cup {[k EXCEPT !.at = IF ok THEN "done" ELSE "failed"]}
    /\ UNCHANGED <<nodeVars, openVars, pages, index, saved, keep, stale, reads>>

\* The page is up to date for those who wait, and cached if the read succeeded.
MarkPage(k) ==
    /\ k \in tasks /\ k.at \in {"done", "failed"} /\ opening = NoOpen
    /\ tasks' = tasks \ {k}
    /\ pages' = [p \in DOMAIN pages |-> IF p = k.page THEN "uptodate" ELSE pages[p]]
    /\ index' = IF k.at = "done" THEN index \cup {k.page} ELSE index
    /\ stale' = IF k.at = "done" /\ k.session # session THEN stale \cup {k.page} ELSE stale
    /\ UNCHANGED <<nodeVars, openVars, have, saved, keep, reads, faults>>

Next ==
    \/ \E t \in Threads :
        \/ FindNode(t) \/ CloudDoLookupHelper(t) \/ EraseNode(t)
        \/ \E n \in 1..MaxLookups : PutNode(t, n)
    \/ HandleReopen \/ CreateReadSession \/ CloudOpenFails
    \/ \E i \in inits : LoadCacheFileIndex(i) \/ DoSessionInit(i)
    \/ HandleOpenResult \/ OpenTimesOut \/ SetKeepCache \/ RemoveLocal
    \/ \E fh \in DOMAIN handles : CloudRelease(fh)
    \/ \E size \in 1..PageSize, off \in 0..((LastPage + 1) * PageSize) : DoCloudRead(size, off)
    \/ \E k \in tasks : EnterPage(k) \/ CheckAndWaitFails(k) \/ PRead(k) \/ MarkPage(k)

Spec == Init /\ [][Next]_vars

-----------------------------------------------------------------------------
\* Unless a lookup or forget met another half-way (refCount and inodeCache are
\* changed under no common lock), the inode in the cache counts exactly the
\* lookups the kernel holds, and is there as long as the kernel holds one.
LookupsAreCounted ==
    (~raced /\ \A t \in Threads : calls[t] = Idle) =>
        /\ nodes.kernel > 0 <=> nodes.cache # 0
        /\ nodes.cache # 0 => nodes.ref[nodes.cache] = nodes.kernel

\* sessionRefCount is the number of open handles whatever opens fail, time out
\* or are served by a session another open made; a CONTENT file has a session
\* exactly while it has a handle, so no session is left behind and no handle
\* reads without one.
SessionMatchesHandles ==
    opening = NoOpen =>
        /\ count = Cardinality(DOMAIN handles)
        /\ Content => (session # 0 <=> count > 0)

\* A read of a page whose index entry says HAS_CACHED is served from the cache
\* file without asking the session: the page's data is there, across releases
\* that drop or keep the file, tasks that outlive their open, and opens that
\* load the saved index.  The one exception is a page marked by a task of an
\* earlier session.
CachedPagesAreThere ==
    (count > 0 /\ opening = NoOpen) => index \ stale \subseteq have

\* The slices of a read of at most one page: together they cover the read
\* without a gap, and none crosses a page boundary.
SlicesCoverTheRead ==
    \A size \in 1..PageSize, off \in 0..(2 * PageSize) :
        LET s == InitReadSlice(size, off)
            bytes(o, n) == o..(o + n - 1)
            onePage(o, n) == n > 0 => o \div PageSize = (o + n - 1) \div PageSize
        IN /\ bytes(off, size) \subseteq bytes(s.offHead, s.sizeHead) \cup bytes(s.offTail, s.sizeTail)
           /\ onePage(s.offHead, s.sizeHead) /\ onePage(s.offTail, s.sizeTail)
           /\ s.sizeTail > 0 => s.offTail = s.offHead + s.sizeHead



=============================================================================
