------------------------- MODULE MCCloudDiskService ---------------------------
(***************************************************************************)
(* Small instances of the components of clouddiskservice.                  *)
(*                                                                         *)
(* The components share no state.  One run checks them side by side: part  *)
(* says which of them a behaviour is about, and v1, v2, ... are that       *)
(* component's variables, so the states are the sum of the components'     *)
(* states and not their product.                                           *)
(***************************************************************************)
EXTENDS Integers, Sequences, FiniteSets, TLC

VARIABLES
    part,         \* the component this behaviour is about
    v1, v2, v3, v4, v5, v6, v7, v8, v9, v10, v11, v12, v13, v14, v15, v16, v17, v18   \* its variables

vars == <<part, v1, v2, v3, v4, v5, v6, v7, v8, v9, v10, v11, v12, v13, v14, v15, v16, v17,
         v18>>

Data == INSTANCE PlaceholderFile WITH
    Callers <- {"c1", "c2"}, Files <- {"f1"},
    Ops <- {"mark", "unmark", "convert", "update", "dehydrate", "hydrate", "setsync"},
    MaxCalls <- 4, MaxFaults <- 0, exists <- v1, data <- v2, byte <- v3,
    dentry <- v4, count <- v5, hasPh <- v6, fileMutex <- v7, stateMutex <- v8,
    task <- v9, events <- v10, pc <- v11, call <- v12, calls <- v13, faults <- v14,
    asked <- v15, reported <- v16, slips <- v17

Counts == INSTANCE PlaceholderFile WITH
    Callers <- {"c1", "c2"}, Files <- {"f1", "f2"},
    Ops <- {"mark", "unmark", "unlink"}, MaxCalls <- 3, MaxFaults <- 1,
    exists <- v1, data <- v2, byte <- v3, dentry <- v4, count <- v5, hasPh <- v6,
    fileMutex <- v7, stateMutex <- v8, task <- v9, events <- v10, pc <- v11,
    call <- v12, calls <- v13, faults <- v14, asked <- v15, reported <- v16,
    slips <- v17

Faults == INSTANCE PlaceholderFile WITH
    Callers <- {"c1"}, Files <- {"f1"},
    Ops <- {"mark", "unmark", "convert", "update", "dehydrate", "hydrate", "create", "setsync"},
    MaxCalls <- 3, MaxFaults <- 3, exists <- v1, data <- v2, byte <- v3,
    dentry <- v4, count <- v5, hasPh <- v6, fileMutex <- v7, stateMutex <- v8,
    task <- v9, events <- v10, pc <- v11, call <- v12, calls <- v13, faults <- v14,
    asked <- v15, reported <- v16, slips <- v17

Creates == INSTANCE PlaceholderFile WITH
    Callers <- {"c1", "c2"}, Files <- {"f1"}, Ops <- {"mark", "create", "unlink"},
    MaxCalls <- 3, MaxFaults <- 0, exists <- v1, data <- v2, byte <- v3,
    dentry <- v4, count <- v5, hasPh <- v6, fileMutex <- v7, stateMutex <- v8,
    task <- v9, events <- v10, pc <- v11, call <- v12, calls <- v13, faults <- v14,
    asked <- v15, reported <- v16, slips <- v17

NewNames == INSTANCE PlaceholderFile WITH
    Callers <- {"c1"}, Files <- {"f1"},
    Ops <- {"mark", "update", "create", "unlink", "new"}, MaxCalls <- 3,
    MaxFaults <- 1, exists <- v1, data <- v2, byte <- v3, dentry <- v4, count <- v5,
    hasPh <- v6, fileMutex <- v7, stateMutex <- v8, task <- v9, events <- v10,
    pc <- v11, call <- v12, calls <- v13, faults <- v14, asked <- v15,
    reported <- v16, slips <- v17

Progress == INSTANCE ProgressManager WITH
    Keys <- {"k1", "k2"}, Users <- {"u1"}, Objects <- {"o1", "o2"}, Tasks <- {"t1"},
    MaxSubs <- 2, MaxReports <- 1, sub <- v1, info <- v2, active <- v3, watch <- v4,
    dead <- v5, notice <- v6, last <- v7, queue <- v8, sending <- v9, task <- v10,
    got <- v11

TwoUsers == INSTANCE ProgressManager WITH
    Keys <- {"k1"}, Users <- {"u1", "u2"}, Objects <- {"o1"}, Tasks <- {"t1"},
    MaxSubs <- 2, MaxReports <- 2, sub <- v1, info <- v2, active <- v3, watch <- v4,
    dead <- v5, notice <- v6, last <- v7, queue <- v8, sending <- v9, task <- v10,
    got <- v11

Restarts == INSTANCE ChangeLog WITH
    PerGroup <- 3, Groups <- 3, Producers <- {"p1"}, MaxLines <- 20,
    MaxCrashes <- 3, MaxFaults <- 1, PageSize <- 0, ring <- v1, cur <- v2,
    rev <- v3, pend <- v4, written <- v5, reader <- v6, got <- v7, passed <- v8,
    gap <- v9, crashes <- v10, faults <- v11

TwoProducers == INSTANCE ChangeLog WITH
    PerGroup <- 2, Groups <- 3, Producers <- {"p1", "p2"}, MaxLines <- 14,
    MaxCrashes <- 1, MaxFaults <- 1, PageSize <- 0, ring <- v1, cur <- v2,
    rev <- v3, pend <- v4, written <- v5, reader <- v6, got <- v7, passed <- v8,
    gap <- v9, crashes <- v10, faults <- v11

Pages == INSTANCE ChangeLog WITH
    PerGroup <- 2, Groups <- 2, Producers <- {"p1"}, MaxLines <- 6, MaxCrashes <- 0,
    MaxFaults <- 1, PageSize <- 3, ring <- v1, cur <- v2, rev <- v3, pend <- v4,
    written <- v5, reader <- v6, got <- v7, passed <- v8, gap <- v9, crashes <- v10,
    faults <- v11

PagesAfterCrash == INSTANCE ChangeLog WITH
    PerGroup <- 2, Groups <- 2, Producers <- {"p1"}, MaxLines <- 5, MaxCrashes <- 1,
    MaxFaults <- 0, PageSize <- 3, ring <- v1, cur <- v2, rev <- v3, pend <- v4,
    written <- v5, reader <- v6, got <- v7, passed <- v8, gap <- v9, crashes <- v10,
    faults <- v11

Disk == INSTANCE DiskEvents WITH
    Names <- {"a", "b", "c"}, OldNames <- {}, MaxOps <- 3, at <- v1, nextFile <- v2,
    queue <- v3, old <- v4, modified <- v5, dent <- v6, renameRec <- v7,
    nextRec <- v8, log <- v9, scan <- v10, statted <- v11, entered <- v12,
    slips <- v13, ops <- v14

Replaced == INSTANCE DiskEvents WITH
    Names <- {"a", "b"}, OldNames <- {}, MaxOps <- 4, at <- v1, nextFile <- v2,
    queue <- v3, old <- v4, modified <- v5, dent <- v6, renameRec <- v7,
    nextRec <- v8, log <- v9, scan <- v10, statted <- v11, entered <- v12,
    slips <- v13, ops <- v14

Warmup == INSTANCE DiskEvents WITH
    Names <- {"a", "b"}, OldNames <- {"a", "b"}, MaxOps <- 2, at <- v1,
    nextFile <- v2, queue <- v3, old <- v4, modified <- v5, dent <- v6,
    renameRec <- v7, nextRec <- v8, log <- v9, scan <- v10, statted <- v11,
    entered <- v12, slips <- v13, ops <- v14

Controller == INSTANCE FuseController WITH
    Users <- {"u1", "u2"}, Roots <- {"r1"},
    Ops <- {"start", "add", "remove", "stop", "exit"}, MaxOps <- 3, MaxFaults <- 1,
    state <- v1, user <- v2, started <- v3, shutdown <- v4, roots <- v5,
    epoch <- v6, session <- v7, loop <- v8, loopExited <- v9, pending <- v10,
    warm <- v11, pendingWarm <- v12, worker <- v13, api <- v14, ops <- v15,
    faults <- v16, mounted <- v17, announced <- v18

Nodes == INSTANCE FuseNodes WITH
    Threads <- {"t1", "t2"}, Roots <- {"r1", "r2"}, Inodes <- {"i1", "i2"},
    Found <- [i \in {"i1", "i2"} |-> IF i = "i1" THEN {"r1"} ELSE {"r2"}],
    MaxNodes <- 2, MaxOpen <- 1, MaxOps <- 5, ready <- v1, gen <- v2, roots <- v3,
    nodes <- v4, ident <- v5, ctx <- v6, pendingOpen <- v7, nextNode <- v8,
    nextHandle <- v9, req <- v10, kref <- v11, khandle <- v12, fds <- v13,
    moved <- v14, ops <- v15

Moved == INSTANCE FuseNodes WITH
    Threads <- {"t1", "t2"}, Roots <- {"r1", "r2"}, Inodes <- {"i1"},
    Found <- [i \in {"i1"} |-> {"r1", "r2"}], MaxNodes <- 2, MaxOpen <- 2,
    MaxOps <- 4, ready <- v1, gen <- v2, roots <- v3, nodes <- v4, ident <- v5,
    ctx <- v6, pendingOpen <- v7, nextNode <- v8, nextHandle <- v9, req <- v10,
    kref <- v11, khandle <- v12, fds <- v13, moved <- v14, ops <- v15

LifeFolders == INSTANCE CloudDiskLifecycle WITH
    Users <- {"u1"}, Names <- {"a", "b"}, Callers <- {"c1", "c2"},
    Kinds <- {"register", "unregister"}, MaxCalls <- 2, MaxSwitches <- 0,
    MaxStarts <- 1, MaxGen <- 1, MaxFaults <- 0, proc <- v1, unload <- v2,
    store <- v3, map <- v4, fuse <- v5, mon <- v6, life <- v7, users <- v8,
    logs <- v9, timer <- v10, index <- v11, app <- v12, client <- v13, thr <- v14,
    hist <- v15, n <- v16

LifeInvalid == INSTANCE CloudDiskLifecycle WITH
    Users <- {"u1"}, Names <- {"a"}, Callers <- {"c1"},
    Kinds <- {"register", "unregister", "invalid"}, MaxCalls <- 2, MaxSwitches <- 0,
    MaxStarts <- 2, MaxGen <- 1, MaxFaults <- 1, proc <- v1, unload <- v2,
    store <- v3, map <- v4, fuse <- v5, mon <- v6, life <- v7, users <- v8,
    logs <- v9, timer <- v10, index <- v11, app <- v12, client <- v13, thr <- v14,
    hist <- v15, n <- v16

LifeUsers == INSTANCE CloudDiskLifecycle WITH
    Users <- {"u1", "u2"}, Names <- {"a"}, Callers <- {"c1"}, Kinds <- {"register"},
    MaxCalls <- 1, MaxSwitches <- 1, MaxStarts <- 1, MaxGen <- 1, MaxFaults <- 0,
    proc <- v1, unload <- v2, store <- v3, map <- v4, fuse <- v5, mon <- v6,
    life <- v7, users <- v8, logs <- v9, timer <- v10, index <- v11, app <- v12,
    client <- v13, thr <- v14, hist <- v15, n <- v16

LifeStopped == INSTANCE CloudDiskLifecycle WITH
    Users <- {"u1", "u2"}, Names <- {"a"}, Callers <- {"c1"}, Kinds <- {"stopped"},
    MaxCalls <- 0, MaxSwitches <- 1, MaxStarts <- 1, MaxGen <- 1, MaxFaults <- 1,
    proc <- v1, unload <- v2, store <- v3, map <- v4, fuse <- v5, mon <- v6,
    life <- v7, users <- v8, logs <- v9, timer <- v10, index <- v11, app <- v12,
    client <- v13, thr <- v14, hist <- v15, n <- v16

LifeListeners == INSTANCE CloudDiskLifecycle WITH
    Users <- {"u1"}, Names <- {"a", "b"}, Callers <- {"c1", "c2"},
    Kinds <- {"listen", "unlisten"}, MaxCalls <- 3, MaxSwitches <- 0,
    MaxStarts <- 1, MaxGen <- 1, MaxFaults <- 0, proc <- v1, unload <- v2,
    store <- v3, map <- v4, fuse <- v5, mon <- v6, life <- v7, users <- v8,
    logs <- v9, timer <- v10, index <- v11, app <- v12, client <- v13, thr <- v14,
    hist <- v15, n <- v16

LifeDeaths == INSTANCE CloudDiskLifecycle WITH
    Users <- {"u1"}, Names <- {"a"}, Callers <- {"c1"},
    Kinds <- {"listen", "unlisten"}, MaxCalls <- 3, MaxSwitches <- 0,
    MaxStarts <- 1, MaxGen <- 2, MaxFaults <- 0, proc <- v1, unload <- v2,
    store <- v3, map <- v4, fuse <- v5, mon <- v6, life <- v7, users <- v8,
    logs <- v9, timer <- v10, index <- v11, app <- v12, client <- v13, thr <- v14,
    hist <- v15, n <- v16

Entries == INSTANCE DentryFile WITH
    Kind <- "disk", Names <- {"a", "b", "c"}, Hash <- [a |-> 0, b |-> 1, c |-> 3],
    SlotsOf <- [a |-> 2, b |-> 1, c |-> 2], Vals <- {1}, PerGroup <- 2,
    MaxLevel <- 3, Tables <- {"d"}, Threads <- {"t"},
    Ops <- {"create", "drop", "rename"}, MaxCalls <- 5, MaxFaults <- 1,
    MaxEvictions <- 0, table <- v1, object <- v2, call <- v3, dir <- v4,
    logged <- v5, torn <- v6, calls <- v7, faults <- v8

EntryVals == INSTANCE DentryFile WITH
    Kind <- "disk", Names <- {"a", "b"}, Hash <- [a |-> 0, b |-> 1, c |-> 3],
    SlotsOf <- [a |-> 2, b |-> 1, c |-> 2], Vals <- {1, 2}, PerGroup <- 2,
    MaxLevel <- 3, Tables <- {"d"}, Threads <- {"t"},
    Ops <- {"create", "save", "change"}, MaxCalls <- 3, MaxFaults <- 1,
    MaxEvictions <- 0, table <- v1, object <- v2, call <- v3, dir <- v4,
    logged <- v5, torn <- v6, calls <- v7, faults <- v8

EntryThreads == INSTANCE DentryFile WITH
    Kind <- "disk", Names <- {"a", "b"}, Hash <- [a |-> 0, b |-> 1, c |-> 3],
    SlotsOf <- [a |-> 2, b |-> 1, c |-> 2], Vals <- {1}, PerGroup <- 2,
    MaxLevel <- 3, Tables <- {"d"}, Threads <- {"t", "u"},
    Ops <- {"create", "drop", "rename"}, MaxCalls <- 3, MaxFaults <- 1,
    MaxEvictions <- 1, table <- v1, object <- v2, call <- v3, dir <- v4,
    logged <- v5, torn <- v6, calls <- v7, faults <- v8

EntryDirs == INSTANCE DentryFile WITH
    Kind <- "disk", Names <- {"a", "b", "c"}, Hash <- [a |-> 0, b |-> 1, c |-> 3],
    SlotsOf <- [a |-> 2, b |-> 1, c |-> 2], Vals <- {1}, PerGroup <- 2,
    MaxLevel <- 3, Tables <- {"d", "e"}, Threads <- {"t"},
    Ops <- {"create", "rename"}, MaxCalls <- 3, MaxFaults <- 1, MaxEvictions <- 0,
    table <- v1, object <- v2, call <- v3, dir <- v4, logged <- v5, torn <- v6,
    calls <- v7, faults <- v8

EntryMarks == INSTANCE DentryFile WITH
    Kind <- "service", Names <- {"a", "b", "c"},
    Hash <- [a |-> 0, b |-> 1, c |-> 3], SlotsOf <- [a |-> 2, b |-> 1, c |-> 2],
    Vals <- {1}, PerGroup <- 2, MaxLevel <- 3, Tables <- {"d"}, Threads <- {"t"},
    Ops <- {"add", "edit", "unlink", "move"}, MaxCalls <- 5, MaxFaults <- 1,
    MaxEvictions <- 0, table <- v1, object <- v2, call <- v3, dir <- v4,
    logged <- v5, torn <- v6, calls <- v7, faults <- v8

Init ==
    \/ part = "data" /\ Data!Init /\ v18 = 0
    \/ part = "counts" /\ Counts!Init /\ v18 = 0
    \/ part = "faults" /\ Faults!Init /\ v18 = 0
    \/ part = "creates" /\ Creates!Init /\ v18 = 0
    \/ part = "names" /\ NewNames!Init /\ v18 = 0
    \/ part = "progress" /\ Progress!Init
       /\ v12 = 0 /\ v13 = 0 /\ v14 = 0 /\ v15 = 0 /\ v16 = 0 /\ v17 = 0
       /\ v18 = 0
    \/ part = "users" /\ TwoUsers!Init
       /\ v12 = 0 /\ v13 = 0 /\ v14 = 0 /\ v15 = 0 /\ v16 = 0 /\ v17 = 0
       /\ v18 = 0
    \/ part = "restarts" /\ Restarts!Init
       /\ v12 = 0 /\ v13 = 0 /\ v14 = 0 /\ v15 = 0 /\ v16 = 0 /\ v17 = 0
       /\ v18 = 0
    \/ part = "producers" /\ TwoProducers!Init
       /\ v12 = 0 /\ v13 = 0 /\ v14 = 0 /\ v15 = 0 /\ v16 = 0 /\ v17 = 0
       /\ v18 = 0
    \/ part = "pages" /\ Pages!Init
       /\ v12 = 0 /\ v13 = 0 /\ v14 = 0 /\ v15 = 0 /\ v16 = 0 /\ v17 = 0
       /\ v18 = 0
    \/ part = "pages after crash" /\ PagesAfterCrash!Init
       /\ v12 = 0 /\ v13 = 0 /\ v14 = 0 /\ v15 = 0 /\ v16 = 0 /\ v17 = 0
       /\ v18 = 0
    \/ part = "disk" /\ Disk!Init /\ v15 = 0 /\ v16 = 0 /\ v17 = 0 /\ v18 = 0
    \/ part = "replaced" /\ Replaced!Init /\ v15 = 0 /\ v16 = 0 /\ v17 = 0 /\ v18 = 0
    \/ part = "warmup" /\ Warmup!Init /\ v15 = 0 /\ v16 = 0 /\ v17 = 0 /\ v18 = 0
    \/ part = "controller" /\ Controller!Init
    \/ part = "nodes" /\ Nodes!Init /\ v16 = 0 /\ v17 = 0 /\ v18 = 0
    \/ part = "moved" /\ Moved!Init /\ v16 = 0 /\ v17 = 0 /\ v18 = 0
    \/ part = "folders" /\ LifeFolders!Init /\ v17 = 0 /\ v18 = 0
    \/ part = "invalid" /\ LifeInvalid!Init /\ v17 = 0 /\ v18 = 0
    \/ part = "switch" /\ LifeUsers!Init /\ v17 = 0 /\ v18 = 0
    \/ part = "stopped" /\ LifeStopped!Init /\ v17 = 0 /\ v18 = 0
    \/ part = "listeners" /\ LifeListeners!Init /\ v17 = 0 /\ v18 = 0
    \/ part = "deaths" /\ LifeDeaths!Init /\ v17 = 0 /\ v18 = 0
    \/ part = "entries" /\ Entries!Init
       /\ v9 = 0 /\ v10 = 0 /\ v11 = 0 /\ v12 = 0 /\ v13 = 0 /\ v14 = 0
       /\ v15 = 0 /\ v16 = 0 /\ v17 = 0 /\ v18 = 0
    \/ part = "values" /\ EntryVals!Init
       /\ v9 = 0 /\ v10 = 0 /\ v11 = 0 /\ v12 = 0 /\ v13 = 0 /\ v14 = 0
       /\ v15 = 0 /\ v16 = 0 /\ v17 = 0 /\ v18 = 0
    \/ part = "dentry threads" /\ EntryThreads!Init
       /\ v9 = 0 /\ v10 = 0 /\ v11 = 0 /\ v12 = 0 /\ v13 = 0 /\ v14 = 0
       /\ v15 = 0 /\ v16 = 0 /\ v17 = 0 /\ v18 = 0
    \/ part = "directories" /\ EntryDirs!Init
       /\ v9 = 0 /\ v10 = 0 /\ v11 = 0 /\ v12 = 0 /\ v13 = 0 /\ v14 = 0
       /\ v15 = 0 /\ v16 = 0 /\ v17 = 0 /\ v18 = 0
    \/ part = "marked" /\ EntryMarks!Init
       /\ v9 = 0 /\ v10 = 0 /\ v11 = 0 /\ v12 = 0 /\ v13 = 0 /\ v14 = 0
       /\ v15 = 0 /\ v16 = 0 /\ v17 = 0 /\ v18 = 0

Next ==
    /\ UNCHANGED part
    /\ \/ part = "data" /\ Data!Next /\ UNCHANGED <<v18>>
       \/ part = "counts" /\ Counts!Next /\ UNCHANGED <<v18>>
       \/ part = "faults" /\ Faults!Next /\ UNCHANGED <<v18>>
       \/ part = "creates" /\ Creates!Next /\ UNCHANGED <<v18>>
       \/ part = "names" /\ NewNames!Next /\ UNCHANGED <<v18>>
       \/ part = "progress" /\ Progress!Next
          /\ UNCHANGED <<v12, v13, v14, v15, v16, v17, v18>>
       \/ part = "users" /\ TwoUsers!Next
          /\ UNCHANGED <<v12, v13, v14, v15, v16, v17, v18>>
       \/ part = "restarts" /\ Restarts!Next
          /\ UNCHANGED <<v12, v13, v14, v15, v16, v17, v18>>
       \/ part = "producers" /\ TwoProducers!Next
          /\ UNCHANGED <<v12, v13, v14, v15, v16, v17, v18>>
       \/ part = "pages" /\ Pages!Next
          /\ UNCHANGED <<v12, v13, v14, v15, v16, v17, v18>>
       \/ part = "pages after crash" /\ PagesAfterCrash!Next
          /\ UNCHANGED <<v12, v13, v14, v15, v16, v17, v18>>
       \/ part = "disk" /\ Disk!Next /\ UNCHANGED <<v15, v16, v17, v18>>
       \/ part = "replaced" /\ Replaced!Next /\ UNCHANGED <<v15, v16, v17, v18>>
       \/ part = "warmup" /\ Warmup!Next /\ UNCHANGED <<v15, v16, v17, v18>>
       \/ part = "controller" /\ Controller!Next
       \/ part = "nodes" /\ Nodes!Next /\ UNCHANGED <<v16, v17, v18>>
       \/ part = "moved" /\ Moved!Next /\ UNCHANGED <<v16, v17, v18>>
       \/ part = "folders" /\ LifeFolders!Next /\ UNCHANGED <<v17, v18>>
       \/ part = "invalid" /\ LifeInvalid!Next /\ UNCHANGED <<v17, v18>>
       \/ part = "switch" /\ LifeUsers!Next /\ UNCHANGED <<v17, v18>>
       \/ part = "stopped" /\ LifeStopped!Next /\ UNCHANGED <<v17, v18>>
       \/ part = "listeners" /\ LifeListeners!Next /\ UNCHANGED <<v17, v18>>
       \/ part = "deaths" /\ LifeDeaths!Next /\ UNCHANGED <<v17, v18>>
       \/ part = "entries" /\ Entries!Next
          /\ UNCHANGED <<v9, v10, v11, v12, v13, v14, v15, v16, v17, v18>>
       \/ part = "values" /\ EntryVals!Next
          /\ UNCHANGED <<v9, v10, v11, v12, v13, v14, v15, v16, v17, v18>>
       \/ part = "dentry threads" /\ EntryThreads!Next
          /\ UNCHANGED <<v9, v10, v11, v12, v13, v14, v15, v16, v17, v18>>
       \/ part = "directories" /\ EntryDirs!Next
          /\ UNCHANGED <<v9, v10, v11, v12, v13, v14, v15, v16, v17, v18>>
       \/ part = "marked" /\ EntryMarks!Next
          /\ UNCHANGED <<v9, v10, v11, v12, v13, v14, v15, v16, v17, v18>>

Spec == Init /\ [][Next]_vars

-----------------------------------------------------------------------------
(* The variables of every component have their types.                     *)
TypeOK ==
    /\ part = "data" => Data!TypeOK
    /\ part = "counts" => Counts!TypeOK
    /\ part = "faults" => Faults!TypeOK
    /\ part = "progress" => Progress!TypeOK
    /\ part = "users" => TwoUsers!TypeOK
    /\ part = "restarts" => Restarts!TypeOK
    /\ part = "producers" => TwoProducers!TypeOK
    /\ part = "disk" => Disk!TypeOK
    /\ part = "controller" => Controller!TypeOK
    /\ part = "nodes" => Nodes!TypeOK
    /\ part = "folders" => LifeFolders!TypeOK
    /\ part = "deaths" => LifeDeaths!TypeOK
    /\ part = "entries" => Entries!TypeOK
    /\ part = "marked" => EntryMarks!TypeOK

(* A file whose state says FULLY_HYDRATED has its data, whatever calls and *)
(* hydrations met on it: no call changes a file under hydration, the sync  *)
(* state that shares a byte with the placeholder state is kept, the entry  *)
(* in the dentry file agrees, and a hole left by a failing call is marked  *)
(* or reported. When no call and no event is under way, the number of      *)
(* placeholders recorded for a directory is that of its placeholders,      *)
(* although first and last placeholder are carried to the parent outside   *)
(* the state mutex, and the directory's own state agrees with it. Excepted *)
(* are a count, a state or an entry whose write failed, and threads that   *)
(* cross on one file without a common mutex: a Create, or the monitor's    *)
(* handling of an event, and another call about that file.                 *)
PlaceholdersAreRight ==
    /\ part = "data" => Data!HolesAreMarkedOrReported
    /\ part = "faults" => Faults!HolesAreMarkedOrReported
    /\ part = "creates" => Creates!HolesAreMarkedOrReported
    /\ part = "names" => NewNames!HolesAreMarkedOrReported
    /\ part = "data" => Data!HydrationExcludesCalls
    /\ part = "faults" => Faults!HydrationExcludesCalls
    /\ part = "creates" => Creates!HydrationExcludesCalls
    /\ part = "names" => NewNames!HydrationExcludesCalls
    /\ part = "data" => Data!SyncStateKept
    /\ part = "faults" => Faults!SyncStateKept
    /\ part = "creates" => Creates!SyncStateKept
    /\ part = "names" => NewNames!SyncStateKept
    /\ part = "data" => Data!DentryAgrees
    /\ part = "counts" => Counts!DentryAgrees
    /\ part = "faults" => Faults!DentryAgrees
    /\ part = "creates" => Creates!DentryAgrees
    /\ part = "names" => NewNames!DentryAgrees
    /\ part = "data" => Data!CountsAreExact
    /\ part = "counts" => Counts!CountsAreExact
    /\ part = "faults" => Faults!CountsAreExact
    /\ part = "creates" => Creates!CountsAreExact
    /\ part = "names" => NewNames!CountsAreExact
    /\ part = "data" => Data!DirectoryStateMatchesCount
    /\ part = "counts" => Counts!DirectoryStateMatchesCount
    /\ part = "faults" => Faults!DirectoryStateMatchesCount
    /\ part = "creates" => Creates!DirectoryStateMatchesCount
    /\ part = "names" => NewNames!DirectoryStateMatchesCount

(* An accessor gets the reports of a task in order, the last one among     *)
(* them although reports are throttled, and only reports of its own user.  *)
ReportsAreRight ==
    /\ part = "progress" => Progress!ReportsAreRight
    /\ part = "users" => TwoUsers!ReportsAreRight

(* The lines between the start line and the current line are in the ring   *)
(* file, with their own numbers, after wrap-around and restart too; the    *)
(* ring keeps as many as it promises, no line number is given out twice,   *)
(* and a reader that pages through the log gets every line that could be   *)
(* read. Excepted is a log with a gap: a line is missing below one that    *)
(* was written, because its write failed or the service was killed between *)
(* the writes of two producers.                                            *)
ChangeLogIsComplete ==
    /\ part = "restarts" => Restarts!ValidLinesAreThere
    /\ part = "producers" => TwoProducers!ValidLinesAreThere
    /\ part = "pages" => Pages!ValidLinesAreThere
    /\ part = "pages after crash" => PagesAfterCrash!ValidLinesAreThere
    /\ part = "restarts" => Restarts!LogIsLongEnough
    /\ part = "producers" => TwoProducers!LogIsLongEnough
    /\ part = "pages" => Pages!LogIsLongEnough
    /\ part = "pages after crash" => PagesAfterCrash!LogIsLongEnough
    /\ part = "restarts" => Restarts!LinesAreNotReused
    /\ part = "producers" => TwoProducers!LinesAreNotReused
    /\ part = "pages" => Pages!LinesAreNotReused
    /\ part = "pages after crash" => PagesAfterCrash!LinesAreNotReused
    /\ part = "pages" => Pages!PagesMissNothing
    /\ part = "pages after crash" => PagesAfterCrash!PagesMissNothing

(* When all events are handled, every file of the sync folder has its      *)
(* record, a file that is gone has none, and the change records replayed   *)
(* from the beginning give the contents of the folder. Excepted are a      *)
(* creation, deletion or move that fanotify merged into an earlier event   *)
(* of the name, of whose mask only one kind is handled, and an event of    *)
(* the file that the warm-up was entering.                                 *)
FolderIsTracked ==
    /\ part = "disk" => Disk!FilesAreKnown
    /\ part = "replaced" => Replaced!FilesAreKnown
    /\ part = "warmup" => Warmup!FilesAreKnown
    /\ part = "disk" => Disk!GoneFilesAreForgotten
    /\ part = "replaced" => Replaced!GoneFilesAreForgotten
    /\ part = "warmup" => Warmup!GoneFilesAreForgotten
    /\ part = "disk" => Disk!LogReplaysToTheFolder
    /\ part = "replaced" => Replaced!LogReplaysToTheFolder
    /\ part = "warmup" => Warmup!LogReplaysToTheFolder

(* A handle leads to the file that was opened under it, a node lives as    *)
(* long as the kernel's references to it, a file has one node, and opens   *)
(* and descriptors are counted exactly, although roots are purged and      *)
(* opens run without the mutex. Excepted is the count of a node that a     *)
(* lookup took along to another root: a purge of the old root leaves it    *)
(* too high.                                                               *)
OpenFilesAreKept ==
    /\ part = "nodes" => Nodes!HandlesKeepTheirFile
    /\ part = "moved" => Moved!HandlesKeepTheirFile
    /\ part = "nodes" => Nodes!LookupsAreCounted
    /\ part = "moved" => Moved!LookupsAreCounted
    /\ part = "nodes" => Nodes!IdentitiesAgree
    /\ part = "moved" => Moved!IdentitiesAgree
    /\ part = "nodes" => Nodes!NoDescriptorLeak
    /\ part = "moved" => Moved!NoDescriptorLeak
    /\ part = "nodes" => Nodes!OpensAreReserved
    /\ part = "moved" => Moved!OpensAreReserved
    /\ part = "nodes" => Nodes!OpensAreCounted
    /\ part = "moved" => Moved!OpensAreCounted

(* Between calls a service that is not about to be unloaded watches its    *)
(* registered folders, one without a folder and with an idle FUSE          *)
(* controller has asked to be unloaded, and UnloadSa never stops the       *)
(* monitor of a registered folder. A listener is told of changes until it  *)
(* unregisters, dies, loses its folder or the user changes, and none of a  *)
(* dead process is left. A change of the user that crosses a call, a late  *)
(* or impossible death notice and overlapping calls about one listener are *)
(* excepted.                                                               *)
FoldersAreWatched ==
    /\ part = "folders" => LifeFolders!RegisteredFolderIsWatched
    /\ part = "invalid" => LifeInvalid!RegisteredFolderIsWatched
    /\ part = "switch" => LifeUsers!RegisteredFolderIsWatched
    /\ part = "stopped" => LifeStopped!RegisteredFolderIsWatched
    /\ part = "folders" => LifeFolders!IdleServiceIsUnloaded
    /\ part = "invalid" => LifeInvalid!IdleServiceIsUnloaded
    /\ part = "switch" => LifeUsers!IdleServiceIsUnloaded
    /\ part = "stopped" => LifeStopped!IdleServiceIsUnloaded
    /\ part = "folders" => LifeFolders!UnloadSparesFolders
    /\ part = "invalid" => LifeInvalid!UnloadSparesFolders
    /\ part = "switch" => LifeUsers!UnloadSparesFolders
    /\ part = "stopped" => LifeStopped!UnloadSparesFolders
    /\ part = "listeners" => LifeListeners!ListenersAreServed
    /\ part = "deaths" => LifeDeaths!ListenersAreServed
    /\ part = "listeners" => LifeListeners!DeadListenersAreForgotten
    /\ part = "deaths" => LifeDeaths!DeadListenersAreForgotten

(* A dentry file says what was done to it: every name created and not      *)
(* removed is found, once and with what was last written of it, and no     *)
(* other name, whatever level of buckets it is in, however calls of        *)
(* threads interleave and writes fail; and a position the change log was   *)
(* given goes on meaning the same name. Two objects of one file in use at  *)
(* once are excepted.                                                      *)
DentryFilesAreRight ==
    /\ part = "entries" => Entries!EntriesAreFound
    /\ part = "values" => EntryVals!EntriesAreFound
    /\ part = "dentry threads" => EntryThreads!EntriesAreFound
    /\ part = "directories" => EntryDirs!EntriesAreFound
    /\ part = "marked" => EntryMarks!EntriesAreFound
    /\ part = "marked" => EntryMarks!PositionsKeepTheirNames

(* A step decided on earlier state does no harm when that state has        *)
(* changed: no file is opened in a root that was replaced or retired since *)
(* its node was looked up, although the open itself happens outside the    *)
(* mutex; the late death notice of an earlier registration does not take a *)
(* live one away; and whichever step makes a started FUSE controller idle  *)
(* dispatches the idle callback, without which the service would never be  *)
(* unloaded.                                                               *)
LateStepsAreHarmless ==
    [][ /\ part = "nodes" => Nodes!OpensAreCurrent
        /\ part = "moved" => Moved!OpensAreCurrent
        /\ part = "progress" => Progress!LiveSubscribersSurviveDeathNotices
        /\ part = "users" => TwoUsers!LiveSubscribersSurviveDeathNotices
        /\ part = "controller" => Controller!IdleIsAnnounced ]_vars

=============================================================================
