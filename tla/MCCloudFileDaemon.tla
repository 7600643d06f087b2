-------------------------- MODULE MCCloudFileDaemon ---------------------------
(***************************************************************************)
(* Small instances of the components of the other services and clients.    *)
(*                                                                         *)
(* The components share no state.  One run checks them side by side: part  *)
(* says which of them a behaviour is about, and v1, v2, ... are that       *)
(* component's variables, so the states are the sum of the components'     *)
(* states and not their product.                                           *)
(***************************************************************************)
EXTENDS Integers, Sequences, FiniteSets, TLC, DiskPrograms, KitPrograms

VARIABLES
    part,         \* the component this behaviour is about
    v1, v2, v3, v4, v5, v6, v7, v8, v9, v10, v11, v12, v13, v14, v15, v16, v17, v18,
    v19, v20, v21, v22, v23, v24, v25, v26, v27, v28, v29, v30   \* its variables

vars == <<part, v1, v2, v3, v4, v5, v6, v7, v8, v9, v10, v11, v12, v13, v14, v15, v16, v17,
         v18, v19, v20, v21, v22, v23, v24, v25, v26, v27, v28, v29, v30>>

\* An application, the media library, the cloud drive's system process and a
\* process without a bundle name that may sync.
SyncCallers == {
    [bundle |-> "a", user |-> 100, perms |-> {}, system |-> FALSE],
    [bundle |-> "medialibrary", user |-> 100, perms |-> {"sync"}, system |-> TRUE],
    [bundle |-> "clouddrive", user |-> 0, perms |-> {"sync", "manager"}, system |-> TRUE],
    [bundle |-> "", user |-> 101, perms |-> {"sync"}, system |-> FALSE]}
\* Two directories, one in the other, with a file each.
CopiedTree == <<
    [name |-> "d", dir |-> TRUE, in |-> "root"], [name |-> "e", dir |-> TRUE, in |-> "d"],
    [name |-> "f", dir |-> FALSE, in |-> "e"], [name |-> "g", dir |-> FALSE, in |-> "d"]>>

Bin == INSTANCE CloudDiskStore WITH
    Ids <- {"c1"}, Names <- {"a", "b"}, Ops <- {"create", "rename", "recycle"},
    MaxOps <- 5, MaxFaults <- 1, rows <- v1, dentry <- v2, trash <- v3, files <- v4,
    threads <- v5, timer <- v6, syncing <- v7, lost <- v8, cut <- v9, ops <- v10,
    faults <- v11

Store == INSTANCE CloudDiskStore WITH
    Ids <- {"c1", "c2"}, Names <- {"a", "b"},
    Ops <- {"create", "mkdir", "write", "rename", "unlink", "recycle", "copy", "setxattr", "location", "setattr"},
    MaxOps <- 3, MaxFaults <- 1, rows <- v1, dentry <- v2, trash <- v3, files <- v4,
    threads <- v5, timer <- v6, syncing <- v7, lost <- v8, cut <- v9, ops <- v10,
    faults <- v11

Log == INSTANCE OperationLog WITH
    Callers <- {"p1", "p2"}, Dirs <- {"d", "e"}, MaxQueue <- 2, BatchSize <- 2,
    MaxRecords <- 2, CleanBatch <- 1, MaxRetries <- 2, MaxDirs <- 1,
    MaxCounted <- 2, MaxCalls <- 3, MaxStops <- 1, inited <- v1, running <- v2,
    stopping <- v3, thread <- v4, queue <- v5, batch <- v6, tries <- v7,
    table <- v8, callers <- v9, accepted <- v10, dropped <- v11, cleaned <- v12,
    calls <- v13, stops <- v14

Migration == INSTANCE DbMigration WITH
    Bundles <- {"b1", "b2"}, Threads <- 1, MaxChanges <- 2, MaxFaults <- 2,
    migrating <- v1, migrated <- v2, rdbDir <- v3, state <- v4, checked <- v5,
    copies <- v6, started <- v7, opened <- v8, old <- v9, new <- v10, made <- v11,
    stray <- v12, faults <- v13

Video == INSTANCE CloudMedia WITH
    Content <- TRUE, Threads <- {"t1"}, LastPage <- 1, PageSize <- 2,
    MaxLookups <- 1, MaxOpens <- 2, MaxReads <- 1, MaxFaults <- 1, nodes <- v1,
    calls <- v2, raced <- v3, session <- v4, count <- v5, handles <- v6,
    opening <- v7, inits <- v8, pages <- v9, index <- v10, have <- v11,
    saved <- v12, keep <- v13, tasks <- v14, stale <- v15, files <- v16,
    opens <- v17, reads <- v18, faults <- v19

Thumbnail == INSTANCE CloudMedia WITH
    Content <- FALSE, Threads <- {"t1"}, LastPage <- 1, PageSize <- 2,
    MaxLookups <- 1, MaxOpens <- 4, MaxReads <- 1, MaxFaults <- 2, nodes <- v1,
    calls <- v2, raced <- v3, session <- v4, count <- v5, handles <- v6,
    opening <- v7, inits <- v8, pages <- v9, index <- v10, have <- v11,
    saved <- v12, keep <- v13, tasks <- v14, stale <- v15, files <- v16,
    opens <- v17, reads <- v18, faults <- v19

Inode == INSTANCE CloudMedia WITH
    Content <- FALSE, Threads <- {"t1", "t2"}, LastPage <- 1, PageSize <- 2,
    MaxLookups <- 3, MaxOpens <- 0, MaxReads <- 0, MaxFaults <- 0, nodes <- v1,
    calls <- v2, raced <- v3, session <- v4, count <- v5, handles <- v6,
    opening <- v7, inits <- v8, pages <- v9, index <- v10, have <- v11,
    saved <- v12, keep <- v13, tasks <- v14, stale <- v15, files <- v16,
    opens <- v17, reads <- v18, faults <- v19

PageReads == INSTANCE MediaReads WITH
    Readers <- {"r1", "r2"}, Cancellers <- {"r1"}, pc <- v1, lock <- v2,
    shared <- v3, page <- v4, cancelled <- v5, argsSet <- v6, status <- v7,
    woken <- v8, late <- v9, reply <- v10

TwoFiles == INSTANCE CloudDiskFiles WITH
    Names <- {"a", "b"}, Files <- {"f1", "f2"}, InCloud <- [n \in {"a"} |-> "f1"],
    Thumbs <- {}, MaxOps <- 3, MaxOpens <- 2, MaxFaults <- 1, dir <- v1, bin <- v2,
    inodes <- v3, key <- v4, binKey <- v5, reused <- v6, astray <- v7, locals <- v8,
    cache <- v9, counts <- v10, handles <- v11, waiting <- v12, cleaned <- v13,
    lost <- v14, opening <- v15, reading <- v16, ops <- v17, fileId <- v18,
    faults <- v19

Renames == INSTANCE CloudDiskFiles WITH
    Names <- {"a", "b"}, Files <- {"f1", "f2"}, InCloud <- [n \in {"a"} |-> "f1"],
    Thumbs <- {}, MaxOps <- 6, MaxOpens <- 0, MaxFaults <- 0, dir <- v1, bin <- v2,
    inodes <- v3, key <- v4, binKey <- v5, reused <- v6, astray <- v7, locals <- v8,
    cache <- v9, counts <- v10, handles <- v11, waiting <- v12, cleaned <- v13,
    lost <- v14, opening <- v15, reading <- v16, ops <- v17, fileId <- v18,
    faults <- v19

Opens == INSTANCE CloudDiskFiles WITH
    Names <- {"a"}, Files <- {"f1"}, InCloud <- [n \in {"a"} |-> "f1"],
    Thumbs <- {}, MaxOps <- 2, MaxOpens <- 4, MaxFaults <- 1, dir <- v1, bin <- v2,
    inodes <- v3, key <- v4, binKey <- v5, reused <- v6, astray <- v7, locals <- v8,
    cache <- v9, counts <- v10, handles <- v11, waiting <- v12, cleaned <- v13,
    lost <- v14, opening <- v15, reading <- v16, ops <- v17, fileId <- v18,
    faults <- v19

Thumb == INSTANCE CloudDiskFiles WITH
    Names <- {"a"}, Files <- {"f1"}, InCloud <- [n \in {"a"} |-> "f1"],
    Thumbs <- {"f1"}, MaxOps <- 3, MaxOpens <- 4, MaxFaults <- 2, dir <- v1,
    bin <- v2, inodes <- v3, key <- v4, binKey <- v5, reused <- v6, astray <- v7,
    locals <- v8, cache <- v9, counts <- v10, handles <- v11, waiting <- v12,
    cleaned <- v13, lost <- v14, opening <- v15, reading <- v16, ops <- v17,
    fileId <- v18, faults <- v19

Device == INSTANCE P2PConnection WITH
    Apps <- {"a", "b"}, Managers <- {"a"}, MaxOps <- 3, MaxFds <- 2, MaxFaults <- 1,
    connects <- v1, docs <- v2, mounted <- v3, record <- v4, queue <- v5,
    pool <- v6, kernel <- v7, agent <- v8, pc <- v9, overlap <- v10, ops <- v11,
    fds <- v12, faults <- v13

Mounts == INSTANCE P2PConnection WITH
    Apps <- {"a"}, Managers <- {"a"}, MaxOps <- 4, MaxFds <- 2, MaxFaults <- 1,
    connects <- v1, docs <- v2, mounted <- v3, record <- v4, queue <- v5,
    pool <- v6, kernel <- v7, agent <- v8, pc <- v9, overlap <- v10, ops <- v11,
    fds <- v12, faults <- v13

Channel == INSTANCE ControlChannel WITH
    Clients <- {"c"}, MaxOps <- 3, MaxSockets <- 3, MaxFaults <- 1, channel <- v1,
    outbox <- v2, waiters <- v3, call <- v4, closers <- v5, sockets <- v6,
    wire <- v7, events <- v8, serverMap <- v9, notices <- v10, stuck <- v11,
    answered <- v12, msgs <- v13, ops <- v14, faults <- v15

Channels == INSTANCE ControlChannel WITH
    Clients <- {"c", "d"}, MaxOps <- 2, MaxSockets <- 2, MaxFaults <- 1,
    channel <- v1, outbox <- v2, waiters <- v3, call <- v4, closers <- v5,
    sockets <- v6, wire <- v7, events <- v8, serverMap <- v9, notices <- v10,
    stuck <- v11, answered <- v12, msgs <- v13, ops <- v14, faults <- v15

Transfers == INSTANCE RemoteAssets WITH
    Peers <- {"p"}, Tasks <- {"s", "t"}, MaxFaults <- 1, MaxCallbacks <- 0,
    thread <- v1, loaded <- v2, count <- v3, record <- v4, infos <- v5,
    session <- v6, wire <- v7, handler <- v8, closing <- v9, lost <- v10,
    broken <- v11, served <- v12, proxy <- v13, regs <- v14, reports <- v15,
    faults <- v16

Assets == INSTANCE RemoteAssets WITH
    Peers <- {"p", "q"}, Tasks <- {"s"}, MaxFaults <- 2, MaxCallbacks <- 2,
    thread <- v1, loaded <- v2, count <- v3, record <- v4, infos <- v5,
    session <- v6, wire <- v7, handler <- v8, closing <- v9, lost <- v10,
    broken <- v11, served <- v12, proxy <- v13, regs <- v14, reports <- v15,
    faults <- v16

Calls == INSTANCE CloudSyncService WITH
    Callers <- SyncCallers, Bundles <- {"a", "gallery"}, Users <- {100, 101},
    Abilities <- {"events", "softbus"}, Jobs <- {}, Kinds <- {"plain"}, MaxOps <- 0,
    phase <- v1, abilities <- v2, observers <- v3, asked <- v4, working <- v5,
    recorded <- v6, real <- v7, notice <- v8, cache <- v9, cacheUser <- v10,
    crossed <- v11, filling <- v12, stopSync <- v13, early <- v14, cleanLock <- v15,
    job <- v16, ops <- v17

AssetCalls == INSTANCE CloudSyncService WITH
    Callers <- SyncCallers, Bundles <- {"a", "gallery"}, Users <- {100, 101},
    Abilities <- {"events", "softbus"}, Jobs <- {}, Kinds <- {"asset"}, MaxOps <- 0,
    phase <- v1, abilities <- v2, observers <- v3, asked <- v4, working <- v5,
    recorded <- v6, real <- v7, notice <- v8, cache <- v9, cacheUser <- v10,
    crossed <- v11, filling <- v12, stopSync <- v13, early <- v14, cleanLock <- v15,
    job <- v16, ops <- v17

Switches == INSTANCE CloudSyncService WITH
    Callers <- {}, Bundles <- {"hdc", "gallery"}, Users <- {100}, Abilities <- {},
    Jobs <- {"j", "k"}, Kinds <- {"switch"}, MaxOps <- 4, phase <- v1,
    abilities <- v2, observers <- v3, asked <- v4, working <- v5, recorded <- v6,
    real <- v7, notice <- v8, cache <- v9, cacheUser <- v10, crossed <- v11,
    filling <- v12, stopSync <- v13, early <- v14, cleanLock <- v15, job <- v16,
    ops <- v17

UserSwitches == INSTANCE CloudSyncService WITH
    Callers <- {}, Bundles <- {"a", "b"}, Users <- {100, 101}, Abilities <- {},
    Jobs <- {"j"}, Kinds <- {"switch"}, MaxOps <- 2, phase <- v1, abilities <- v2,
    observers <- v3, asked <- v4, working <- v5, recorded <- v6, real <- v7,
    notice <- v8, cache <- v9, cacheUser <- v10, crossed <- v11, filling <- v12,
    stopSync <- v13, early <- v14, cleanLock <- v15, job <- v16, ops <- v17

UserSettings == INSTANCE SyncRules WITH
    Kinds <- {"settings"}, Users <- {"u", "w"}, Values <- {"x", "y"},
    Readers <- {"r"}, MaxOps <- 2, setting <- v1, userId <- v2, support <- v3,
    preInit <- v4, settingsMap <- v5, observed <- v6, onChange <- v7, query <- v8,
    user <- v9, overlap <- v10, net <- v11, netStatus <- v12, netEvents <- v13,
    registered <- v14, heard <- v15, fetch <- v16, cellSwitch <- v17,
    cellMap <- v18, cellNotice <- v19, check <- v20, stopper <- v21,
    uploading <- v22, level <- v23, stopped <- v24, asking <- v25, cooling <- v26,
    missed <- v27, power <- v28, signal <- v29, ops <- v30

Net == INSTANCE SyncRules WITH
    Kinds <- {"network"}, Users <- {"u"}, Values <- {"x"}, Readers <- {},
    MaxOps <- 3, setting <- v1, userId <- v2, support <- v3, preInit <- v4,
    settingsMap <- v5, observed <- v6, onChange <- v7, query <- v8, user <- v9,
    overlap <- v10, net <- v11, netStatus <- v12, netEvents <- v13,
    registered <- v14, heard <- v15, fetch <- v16, cellSwitch <- v17,
    cellMap <- v18, cellNotice <- v19, check <- v20, stopper <- v21,
    uploading <- v22, level <- v23, stopped <- v24, asking <- v25, cooling <- v26,
    missed <- v27, power <- v28, signal <- v29, ops <- v30

Cell == INSTANCE SyncRules WITH
    Kinds <- {"cellular"}, Users <- {"u"}, Values <- {"x"}, Readers <- {},
    MaxOps <- 3, setting <- v1, userId <- v2, support <- v3, preInit <- v4,
    settingsMap <- v5, observed <- v6, onChange <- v7, query <- v8, user <- v9,
    overlap <- v10, net <- v11, netStatus <- v12, netEvents <- v13,
    registered <- v14, heard <- v15, fetch <- v16, cellSwitch <- v17,
    cellMap <- v18, cellNotice <- v19, check <- v20, stopper <- v21,
    uploading <- v22, level <- v23, stopped <- v24, asking <- v25, cooling <- v26,
    missed <- v27, power <- v28, signal <- v29, ops <- v30

Heat == INSTANCE SyncRules WITH
    Kinds <- {"load"}, Users <- {"u"}, Values <- {"x"}, Readers <- {}, MaxOps <- 3,
    setting <- v1, userId <- v2, support <- v3, preInit <- v4, settingsMap <- v5,
    observed <- v6, onChange <- v7, query <- v8, user <- v9, overlap <- v10,
    net <- v11, netStatus <- v12, netEvents <- v13, registered <- v14, heard <- v15,
    fetch <- v16, cellSwitch <- v17, cellMap <- v18, cellNotice <- v19,
    check <- v20, stopper <- v21, uploading <- v22, level <- v23, stopped <- v24,
    asking <- v25, cooling <- v26, missed <- v27, power <- v28, signal <- v29,
    ops <- v30

Cycle == INSTANCE CycleTasks WITH
    Kinds <- {"runner"}, Runners <- {"r"}, Bundles <- {"a", "b"}, Interval <- 2,
    MaxTime <- 6, Dirs <- {"p", "q"}, Files <- {"f", "g"},
    Sizes <- [d \in {"x", "y", "z"} |-> IF d = "x" THEN 4 ELSE 3], UINT64_MAX <- 7,
    MaxOps <- 4, now <- v1, lastRun <- v2, runner <- v3, ran <- v4, overlap <- v5,
    idle <- v6, task <- v7, owner <- v8, skipped <- v9, stamped <- v10, done <- v11,
    cache <- v12, temp <- v13, cleaned <- v14, moved <- v15, switch <- v16,
    unlocked <- v17, old <- v18, new <- v19, migrated <- v20, pruned <- v21,
    allPruned <- v22, total <- v23, mask <- v24, stopped <- v25, ops <- v26

TwoCycles == INSTANCE CycleTasks WITH
    Kinds <- {"runner"}, Runners <- {"r", "s"}, Bundles <- {"a", "b"},
    Interval <- 2, MaxTime <- 4, Dirs <- {"p", "q"}, Files <- {"f", "g"},
    Sizes <- [d \in {"x", "y", "z"} |-> IF d = "x" THEN 4 ELSE 3], UINT64_MAX <- 7,
    MaxOps <- 4, now <- v1, lastRun <- v2, runner <- v3, ran <- v4, overlap <- v5,
    idle <- v6, task <- v7, owner <- v8, skipped <- v9, stamped <- v10, done <- v11,
    cache <- v12, temp <- v13, cleaned <- v14, moved <- v15, switch <- v16,
    unlocked <- v17, old <- v18, new <- v19, migrated <- v20, pruned <- v21,
    allPruned <- v22, total <- v23, mask <- v24, stopped <- v25, ops <- v26

ChownTask == INSTANCE CycleTasks WITH
    Kinds <- {"chown"}, Runners <- {}, Bundles <- {"a", "b"}, Interval <- 2,
    MaxTime <- 1, Dirs <- {"p", "q"}, Files <- {"f", "g"},
    Sizes <- [d \in {"x", "y", "z"} |-> IF d = "x" THEN 4 ELSE 3], UINT64_MAX <- 7,
    MaxOps <- 4, now <- v1, lastRun <- v2, runner <- v3, ran <- v4, overlap <- v5,
    idle <- v6, task <- v7, owner <- v8, skipped <- v9, stamped <- v10, done <- v11,
    cache <- v12, temp <- v13, cleaned <- v14, moved <- v15, switch <- v16,
    unlocked <- v17, old <- v18, new <- v19, migrated <- v20, pruned <- v21,
    allPruned <- v22, total <- v23, mask <- v24, stopped <- v25, ops <- v26

CleanTask == INSTANCE CycleTasks WITH
    Kinds <- {"clean"}, Runners <- {}, Bundles <- {"a", "b"}, Interval <- 2,
    MaxTime <- 1, Dirs <- {"p", "q"}, Files <- {"f", "g"},
    Sizes <- [d \in {"x", "y", "z"} |-> IF d = "x" THEN 4 ELSE 3], UINT64_MAX <- 7,
    MaxOps <- 6, now <- v1, lastRun <- v2, runner <- v3, ran <- v4, overlap <- v5,
    idle <- v6, task <- v7, owner <- v8, skipped <- v9, stamped <- v10, done <- v11,
    cache <- v12, temp <- v13, cleaned <- v14, moved <- v15, switch <- v16,
    unlocked <- v17, old <- v18, new <- v19, migrated <- v20, pruned <- v21,
    allPruned <- v22, total <- v23, mask <- v24, stopped <- v25, ops <- v26

PruneTask == INSTANCE CycleTasks WITH
    Kinds <- {"prune"}, Runners <- {}, Bundles <- {"a", "b"}, Interval <- 2,
    MaxTime <- 1, Dirs <- {"p", "q"}, Files <- {"f", "g"},
    Sizes <- [d \in {"x", "y", "z"} |-> IF d = "x" THEN 4 ELSE 3], UINT64_MAX <- 7,
    MaxOps <- 4, now <- v1, lastRun <- v2, runner <- v3, ran <- v4, overlap <- v5,
    idle <- v6, task <- v7, owner <- v8, skipped <- v9, stamped <- v10, done <- v11,
    cache <- v12, temp <- v13, cleaned <- v14, moved <- v15, switch <- v16,
    unlocked <- v17, old <- v18, new <- v19, migrated <- v20, pruned <- v21,
    allPruned <- v22, total <- v23, mask <- v24, stopped <- v25, ops <- v26

SpaceTask == INSTANCE CycleTasks WITH
    Kinds <- {"report"}, Runners <- {}, Bundles <- {"a", "b"}, Interval <- 2,
    MaxTime <- 1, Dirs <- {"p", "q"}, Files <- {"f", "g"},
    Sizes <- [d \in {"x", "y", "z"} |-> IF d = "x" THEN 4 ELSE 3], UINT64_MAX <- 7,
    MaxOps <- 4, now <- v1, lastRun <- v2, runner <- v3, ran <- v4, overlap <- v5,
    idle <- v6, task <- v7, owner <- v8, skipped <- v9, stamped <- v10, done <- v11,
    cache <- v12, temp <- v13, cleaned <- v14, moved <- v15, switch <- v16,
    unlocked <- v17, old <- v18, new <- v19, migrated <- v20, pruned <- v21,
    allPruned <- v22, total <- v23, mask <- v24, stopped <- v25, ops <- v26

SyncState == INSTANCE SyncRecords WITH
    Kinds <- {"state"}, Threads <- {}, Sizes <- {}, MaxOps <- 5, MaxFaults <- 0,
    state <- v1, next <- v2, signals <- v3, stopFlag <- v4, running <- v5,
    pending <- v6, told <- v7, file <- v8, source <- v9, restore <- v10,
    imported <- v11, hurt <- v12, indexed <- v13, rows <- v14, size <- v15,
    added <- v16, call <- v17, lock <- v18, ops <- v19, faults <- v20

SyncRows == INSTANCE SyncRecords WITH
    Kinds <- {"rows"}, Threads <- {"t", "u"}, Sizes <- {1, 2}, MaxOps <- 5,
    MaxFaults <- 1, state <- v1, next <- v2, signals <- v3, stopFlag <- v4,
    running <- v5, pending <- v6, told <- v7, file <- v8, source <- v9,
    restore <- v10, imported <- v11, hurt <- v12, indexed <- v13, rows <- v14,
    size <- v15, added <- v16, call <- v17, lock <- v18, ops <- v19, faults <- v20

TreeCopy == INSTANCE FileCopy WITH
    Kinds <- {"tree"}, Copies <- {"c"}, PairOf <- [c \in {"c"} |-> "p"],
    Tree <- CopiedTree, Chunks <- 2, MaxCancels <- 1, MaxFaults <- 1, infos <- v1,
    copy <- v2, disk <- v3, cancel <- v4, after <- v5, main <- v6, thread <- v7,
    fd <- v8, closes <- v9, readFlag <- v10, readClosed <- v11, run <- v12,
    error <- v13, events <- v14, size <- v15, progress <- v16, mtp <- v17,
    held <- v18, reported <- v19, cancels <- v20, faults <- v21

SameCopies == INSTANCE FileCopy WITH
    Kinds <- {"tree"}, Copies <- {"c", "d"}, PairOf <- [c \in {"c", "d"} |-> "p"],
    Tree <- <<[name |-> "f", dir |-> FALSE, in |-> "root"]>>, Chunks <- 1,
    MaxCancels <- 2, MaxFaults <- 1, infos <- v1, copy <- v2, disk <- v3,
    cancel <- v4, after <- v5, main <- v6, thread <- v7, fd <- v8, closes <- v9,
    readFlag <- v10, readClosed <- v11, run <- v12, error <- v13, events <- v14,
    size <- v15, progress <- v16, mtp <- v17, held <- v18, reported <- v19,
    cancels <- v20, faults <- v21

TwoCopies == INSTANCE FileCopy WITH
    Kinds <- {"tree"}, Copies <- {"c", "d"}, PairOf <- [c \in {"c", "d"} |-> c],
    Tree <- <<[name |-> "f", dir |-> FALSE, in |-> "root"]>>, Chunks <- 1,
    MaxCancels <- 2, MaxFaults <- 1, infos <- v1, copy <- v2, disk <- v3,
    cancel <- v4, after <- v5, main <- v6, thread <- v7, fd <- v8, closes <- v9,
    readFlag <- v10, readClosed <- v11, run <- v12, error <- v13, events <- v14,
    size <- v15, progress <- v16, mtp <- v17, held <- v18, reported <- v19,
    cancels <- v20, faults <- v21

CopyProgress == INSTANCE FileCopy WITH
    Kinds <- {"listener"}, Copies <- {"c"}, PairOf <- [c \in {"c"} |-> "p"],
    Tree <- <<[name |-> "f", dir |-> FALSE, in |-> "root"]>>, Chunks <- 3,
    MaxCancels <- 0, MaxFaults <- 1, infos <- v1, copy <- v2, disk <- v3,
    cancel <- v4, after <- v5, main <- v6, thread <- v7, fd <- v8, closes <- v9,
    readFlag <- v10, readClosed <- v11, run <- v12, error <- v13, events <- v14,
    size <- v15, progress <- v16, mtp <- v17, held <- v18, reported <- v19,
    cancels <- v20, faults <- v21

RemoteCopy == INSTANCE DaemonTransfers WITH
    Clients <- {1}, SESSION_COUNT <- 1, MaxCancels <- 1, MaxStops <- 1,
    MaxFaults <- 1, client <- v1, pool <- v2, trans <- v3, server <- v4,
    queue <- v5, exec <- v6, remote <- v7, ses <- v8, enders <- v9, shared <- v10,
    left <- v11, cancels <- v12, faults <- v13

NameReuse == INSTANCE DaemonTransfers WITH
    Clients <- {1, 2}, SESSION_COUNT <- 1, MaxCancels <- 1, MaxStops <- 0,
    MaxFaults <- 0, client <- v1, pool <- v2, trans <- v3, server <- v4,
    queue <- v5, exec <- v6, remote <- v7, ses <- v8, enders <- v9, shared <- v10,
    left <- v11, cancels <- v12, faults <- v13

FailedCopies == INSTANCE DaemonTransfers WITH
    Clients <- {1, 2}, SESSION_COUNT <- 1, MaxCancels <- 0, MaxStops <- 0,
    MaxFaults <- 1, client <- v1, pool <- v2, trans <- v3, server <- v4,
    queue <- v5, exec <- v6, remote <- v7, ses <- v8, enders <- v9, shared <- v10,
    left <- v11, cancels <- v12, faults <- v13

RemoteCopies == INSTANCE DaemonTransfers WITH
    Clients <- {1, 2}, SESSION_COUNT <- 2, MaxCancels <- 0, MaxStops <- 0,
    MaxFaults <- 0, client <- v1, pool <- v2, trans <- v3, server <- v4,
    queue <- v5, exec <- v6, remote <- v7, ses <- v8, enders <- v9, shared <- v10,
    left <- v11, cancels <- v12, faults <- v13

PushOnce == INSTANCE AssetPush WITH
    Kinds <- {"send"}, Pushes <- {"p", "q"}, TaskOf <- [p \in {"p", "q"} |-> p],
    Multi <- {"p"}, Sockets <- {}, Bundles <- [s \in {"s", "t"} |-> "b"],
    Listeners <- {"l", "m"}, MaxOps <- 0, MaxFaults <- 2, push <- v1, queue <- v2,
    sendCallbackMap <- v3, fileMap <- v4, told <- v5, failed <- v6, garbage <- v7,
    recv <- v8, starts <- v9, ends <- v10, good <- v11, listeners <- v12,
    registered <- v13, up <- v14, notice <- v15, missed <- v16, ops <- v17,
    faults <- v18

PushTwice == INSTANCE AssetPush WITH
    Kinds <- {"send"}, Pushes <- {"p", "q"}, TaskOf <- [p \in {"p", "q"} |-> "t"],
    Multi <- {"p"}, Sockets <- {}, Bundles <- [s \in {"s", "t"} |-> "b"],
    Listeners <- {"l", "m"}, MaxOps <- 0, MaxFaults <- 1, push <- v1, queue <- v2,
    sendCallbackMap <- v3, fileMap <- v4, told <- v5, failed <- v6, garbage <- v7,
    recv <- v8, starts <- v9, ends <- v10, good <- v11, listeners <- v12,
    registered <- v13, up <- v14, notice <- v15, missed <- v16, ops <- v17,
    faults <- v18

AssetRecv == INSTANCE AssetPush WITH
    Kinds <- {"recv"}, Pushes <- {}, TaskOf <- <<>>, Multi <- {},
    Sockets <- {"s", "t"}, Bundles <- [s \in {"s", "t"} |-> "b"],
    Listeners <- {"l", "m"}, MaxOps <- 0, MaxFaults <- 2, push <- v1, queue <- v2,
    sendCallbackMap <- v3, fileMap <- v4, told <- v5, failed <- v6, garbage <- v7,
    recv <- v8, starts <- v9, ends <- v10, good <- v11, listeners <- v12,
    registered <- v13, up <- v14, notice <- v15, missed <- v16, ops <- v17,
    faults <- v18

AssetClient == INSTANCE AssetPush WITH
    Kinds <- {"client"}, Pushes <- {}, TaskOf <- <<>>, Multi <- {}, Sockets <- {},
    Bundles <- [s \in {"s", "t"} |-> "b"], Listeners <- {"l", "m"}, MaxOps <- 4,
    MaxFaults <- 2, push <- v1, queue <- v2, sendCallbackMap <- v3, fileMap <- v4,
    told <- v5, failed <- v6, garbage <- v7, recv <- v8, starts <- v9, ends <- v10,
    good <- v11, listeners <- v12, registered <- v13, up <- v14, notice <- v15,
    missed <- v16, ops <- v17, faults <- v18

Ipc == INSTANCE IpcCalls WITH
    MAX_SIZE <- 2, MAX_KEY <- 2, MaxLen <- 3, MaxFaults <- 1, call <- v1,
    code <- v2, len <- v3, null <- v4, side <- v5, at <- v6, data <- v7,
    reply <- v8, got <- v9, out <- v10, called <- v11, res <- v12, status <- v13,
    ret <- v14, refused <- v15, lost <- v16, faults <- v17

SyncLib == INSTANCE ClientCalls WITH
    Client <- "sync", Api <- SyncApi, Names <- {}, Threads <- {"t1"}, Ids <- {"a"},
    ServiceErrors <- {"E_PERMISSION_DENIED"}, MaxCalls <- 1, MaxDeaths <- 1,
    MaxFaults <- 1, up <- v1, inst <- v2, known <- v3, proxy <- v4, mutex <- v5,
    late <- v6, flags <- v7, lists <- v8, inactive <- v9, links <- v10,
    notices <- v11, heard <- v12, adds <- v13, locks <- v14, calls <- v15,
    made <- v16, faults <- v17, hist <- v18

AssetLib == INSTANCE ClientCalls WITH
    Client <- "asset", Api <- AssetApi, Names <- {}, Threads <- {"t1"},
    Ids <- {"a"}, ServiceErrors <- {"E_PERMISSION_DENIED"}, MaxCalls <- 1,
    MaxDeaths <- 1, MaxFaults <- 1, up <- v1, inst <- v2, known <- v3, proxy <- v4,
    mutex <- v5, late <- v6, flags <- v7, lists <- v8, inactive <- v9, links <- v10,
    notices <- v11, heard <- v12, adds <- v13, locks <- v14, calls <- v15,
    made <- v16, faults <- v17, hist <- v18

LiteLib == INSTANCE ClientCalls WITH
    Client <- "lite", Api <- LiteApi, Names <- {}, Threads <- {"t1", "t2"},
    Ids <- {"a"}, ServiceErrors <- {}, MaxCalls <- 2, MaxDeaths <- 1,
    MaxFaults <- 1, up <- v1, inst <- v2, known <- v3, proxy <- v4, mutex <- v5,
    late <- v6, flags <- v7, lists <- v8, inactive <- v9, links <- v10,
    notices <- v11, heard <- v12, adds <- v13, locks <- v14, calls <- v15,
    made <- v16, faults <- v17, hist <- v18

CloudDaemonLib == INSTANCE ClientCalls WITH
    Client <- "clouddaemon", Api <- CloudDaemonApi, Names <- {}, Threads <- {"t1"},
    Ids <- {"a"}, ServiceErrors <- {"E_PERMISSION_DENIED"}, MaxCalls <- 2,
    MaxDeaths <- 1, MaxFaults <- 1, up <- v1, inst <- v2, known <- v3, proxy <- v4,
    mutex <- v5, late <- v6, flags <- v7, lists <- v8, inactive <- v9, links <- v10,
    notices <- v11, heard <- v12, adds <- v13, locks <- v14, calls <- v15,
    made <- v16, faults <- v17, hist <- v18

DfsLib == INSTANCE ClientCalls WITH
    Client <- "dfs", Api <- DfsApi, Names <- {}, Threads <- {"t1"}, Ids <- {"a"},
    ServiceErrors <- {"E_PERMISSION_DENIED"}, MaxCalls <- 1, MaxDeaths <- 1,
    MaxFaults <- 1, up <- v1, inst <- v2, known <- v3, proxy <- v4, mutex <- v5,
    late <- v6, flags <- v7, lists <- v8, inactive <- v9, links <- v10,
    notices <- v11, heard <- v12, adds <- v13, locks <- v14, calls <- v15,
    made <- v16, faults <- v17, hist <- v18

DiskLib == INSTANCE ClientCalls WITH
    Client <- "disk", Api <- DiskApi, Names <- {}, Threads <- {"t1"}, Ids <- {"a"},
    ServiceErrors <- {"E_PERMISSION_DENIED"}, MaxCalls <- 1, MaxDeaths <- 1,
    MaxFaults <- 1, up <- v1, inst <- v2, known <- v3, proxy <- v4, mutex <- v5,
    late <- v6, flags <- v7, lists <- v8, inactive <- v9, links <- v10,
    notices <- v11, heard <- v12, adds <- v13, locks <- v14, calls <- v15,
    made <- v16, faults <- v17, hist <- v18

JsKit == INSTANCE ClientCalls WITH
    Client <- "js", Api <- JsApi, Names <- {}, Threads <- {"t1"}, Ids <- {"a"},
    ServiceErrors <- {"E_PERMISSION_DENIED", "E_CLOUD_SDK"}, MaxCalls <- 1,
    MaxDeaths <- 0, MaxFaults <- 1, up <- v1, inst <- v2, known <- v3, proxy <- v4,
    mutex <- v5, late <- v6, flags <- v7, lists <- v8, inactive <- v9, links <- v10,
    notices <- v11, heard <- v12, adds <- v13, locks <- v14, calls <- v15,
    made <- v16, faults <- v17, hist <- v18

AniKit == INSTANCE ClientCalls WITH
    Client <- "ani", Api <- AniApi, Names <- {}, Threads <- {"t1"}, Ids <- {"a"},
    ServiceErrors <- {"E_PERMISSION_DENIED", "E_CLOUD_SDK"}, MaxCalls <- 1,
    MaxDeaths <- 0, MaxFaults <- 1, up <- v1, inst <- v2, known <- v3, proxy <- v4,
    mutex <- v5, late <- v6, flags <- v7, lists <- v8, inactive <- v9, links <- v10,
    notices <- v11, heard <- v12, adds <- v13, locks <- v14, calls <- v15,
    made <- v16, faults <- v17, hist <- v18

SyncRegisters == INSTANCE ClientCalls WITH
    Client <- "sync", Api <- SyncApi,
    Names <- {"RegisterCallback", "RegisterUploadCallback"}, Threads <- {"t1"},
    Ids <- {"a"}, ServiceErrors <- {}, MaxCalls <- 2, MaxDeaths <- 1,
    MaxFaults <- 0, up <- v1, inst <- v2, known <- v3, proxy <- v4, mutex <- v5,
    late <- v6, flags <- v7, lists <- v8, inactive <- v9, links <- v10,
    notices <- v11, heard <- v12, adds <- v13, locks <- v14, calls <- v15,
    made <- v16, faults <- v17, hist <- v18

SyncStarts == INSTANCE ClientCalls WITH
    Client <- "sync", Api <- SyncApi,
    Names <- {"StartSyncWithCallback", "StopSync"}, Threads <- {"t1", "t2"},
    Ids <- {"a"}, ServiceErrors <- {}, MaxCalls <- 2, MaxDeaths <- 1,
    MaxFaults <- 0, up <- v1, inst <- v2, known <- v3, proxy <- v4, mutex <- v5,
    late <- v6, flags <- v7, lists <- v8, inactive <- v9, links <- v10,
    notices <- v11, heard <- v12, adds <- v13, locks <- v14, calls <- v15,
    made <- v16, faults <- v17, hist <- v18

AssetDownloads == INSTANCE ClientCalls WITH
    Client <- "asset", Api <- AssetApi, Names <- {"DownloadFileWithCallback"},
    Threads <- {"t1", "t2"}, Ids <- {"a"}, ServiceErrors <- {}, MaxCalls <- 2,
    MaxDeaths <- 1, MaxFaults <- 1, up <- v1, inst <- v2, known <- v3, proxy <- v4,
    mutex <- v5, late <- v6, flags <- v7, lists <- v8, inactive <- v9, links <- v10,
    notices <- v11, heard <- v12, adds <- v13, locks <- v14, calls <- v15,
    made <- v16, faults <- v17, hist <- v18

DfsConnects == INSTANCE ClientCalls WITH
    Client <- "dfs", Api <- DfsApi, Names <- {"ConnectDfs"},
    Threads <- {"t1", "t2"}, Ids <- {"a"}, ServiceErrors <- {}, MaxCalls <- 3,
    MaxDeaths <- 1, MaxFaults <- 1, up <- v1, inst <- v2, known <- v3, proxy <- v4,
    mutex <- v5, late <- v6, flags <- v7, lists <- v8, inactive <- v9, links <- v10,
    notices <- v11, heard <- v12, adds <- v13, locks <- v14, calls <- v15,
    made <- v16, faults <- v17, hist <- v18

AccessorProgress == INSTANCE ClientCalls WITH
    Client <- "disk", Api <- DiskApi,
    Names <- {"RegisterProgressCallback", "UnregisterProgressCallback"},
    Threads <- {"t1", "t2"}, Ids <- {"a", "b"},
    ServiceErrors <- {"E_PERMISSION_DENIED"}, MaxCalls <- 3, MaxDeaths <- 0,
    MaxFaults <- 1, up <- v1, inst <- v2, known <- v3, proxy <- v4, mutex <- v5,
    late <- v6, flags <- v7, lists <- v8, inactive <- v9, links <- v10,
    notices <- v11, heard <- v12, adds <- v13, locks <- v14, calls <- v15,
    made <- v16, faults <- v17, hist <- v18

DiskTables == INSTANCE ClientCalls WITH
    Client <- "disk", Api <- DiskApi,
    Names <- {"OH_RegisterCallbackTable", "OH_UnregisterCallbackTable"},
    Threads <- {"t1"}, Ids <- {"a"}, ServiceErrors <- {}, MaxCalls <- 3,
    MaxDeaths <- 1, MaxFaults <- 1, up <- v1, inst <- v2, known <- v3, proxy <- v4,
    mutex <- v5, late <- v6, flags <- v7, lists <- v8, inactive <- v9, links <- v10,
    notices <- v11, heard <- v12, adds <- v13, locks <- v14, calls <- v15,
    made <- v16, faults <- v17, hist <- v18

JsCallbacks == INSTANCE ClientCalls WITH
    Client <- "js", Api <- JsApi,
    Names <- {"CloudSync_on", "CloudSync_off", "onUploadProgress", "offUploadProgress"},
    Threads <- {"t1"}, Ids <- {"a"}, ServiceErrors <- {"E_PERMISSION_DENIED"},
    MaxCalls <- 3, MaxDeaths <- 0, MaxFaults <- 1, up <- v1, inst <- v2,
    known <- v3, proxy <- v4, mutex <- v5, late <- v6, flags <- v7, lists <- v8,
    inactive <- v9, links <- v10, notices <- v11, heard <- v12, adds <- v13,
    locks <- v14, calls <- v15, made <- v16, faults <- v17, hist <- v18

JsDownloads == INSTANCE ClientCalls WITH
    Client <- "js", Api <- JsApi,
    Names <- {"Cache_start", "Cache_stop", "registerChange", "unregisterChange"},
    Threads <- {"t1"}, Ids <- {"a"}, ServiceErrors <- {"E_PERMISSION_DENIED"},
    MaxCalls <- 2, MaxDeaths <- 1, MaxFaults <- 1, up <- v1, inst <- v2,
    known <- v3, proxy <- v4, mutex <- v5, late <- v6, flags <- v7, lists <- v8,
    inactive <- v9, links <- v10, notices <- v11, heard <- v12, adds <- v13,
    locks <- v14, calls <- v15, made <- v16, faults <- v17, hist <- v18

Init ==
    \/ part = "bin" /\ Bin!Init
       /\ v12 = 0 /\ v13 = 0 /\ v14 = 0 /\ v15 = 0 /\ v16 = 0 /\ v17 = 0
       /\ v18 = 0 /\ v19 = 0 /\ v20 = 0 /\ v21 = 0 /\ v22 = 0 /\ v23 = 0
       /\ v24 = 0 /\ v25 = 0 /\ v26 = 0 /\ v27 = 0 /\ v28 = 0 /\ v29 = 0
       /\ v30 = 0
    \/ part = "store" /\ Store!Init
       /\ v12 = 0 /\ v13 = 0 /\ v14 = 0 /\ v15 = 0 /\ v16 = 0 /\ v17 = 0
       /\ v18 = 0 /\ v19 = 0 /\ v20 = 0 /\ v21 = 0 /\ v22 = 0 /\ v23 = 0
       /\ v24 = 0 /\ v25 = 0 /\ v26 = 0 /\ v27 = 0 /\ v28 = 0 /\ v29 = 0
       /\ v30 = 0
    \/ part = "log" /\ Log!Init
       /\ v15 = 0 /\ v16 = 0 /\ v17 = 0 /\ v18 = 0 /\ v19 = 0 /\ v20 = 0
       /\ v21 = 0 /\ v22 = 0 /\ v23 = 0 /\ v24 = 0 /\ v25 = 0 /\ v26 = 0
       /\ v27 = 0 /\ v28 = 0 /\ v29 = 0 /\ v30 = 0
    \/ part = "migration" /\ Migration!Init
       /\ v14 = 0 /\ v15 = 0 /\ v16 = 0 /\ v17 = 0 /\ v18 = 0 /\ v19 = 0
       /\ v20 = 0 /\ v21 = 0 /\ v22 = 0 /\ v23 = 0 /\ v24 = 0 /\ v25 = 0
       /\ v26 = 0 /\ v27 = 0 /\ v28 = 0 /\ v29 = 0 /\ v30 = 0
    \/ part = "video" /\ Video!Init
       /\ v20 = 0 /\ v21 = 0 /\ v22 = 0 /\ v23 = 0 /\ v24 = 0 /\ v25 = 0
       /\ v26 = 0 /\ v27 = 0 /\ v28 = 0 /\ v29 = 0 /\ v30 = 0
    \/ part = "thumbnail" /\ Thumbnail!Init
       /\ v20 = 0 /\ v21 = 0 /\ v22 = 0 /\ v23 = 0 /\ v24 = 0 /\ v25 = 0
       /\ v26 = 0 /\ v27 = 0 /\ v28 = 0 /\ v29 = 0 /\ v30 = 0
    \/ part = "inode" /\ Inode!Init
       /\ v20 = 0 /\ v21 = 0 /\ v22 = 0 /\ v23 = 0 /\ v24 = 0 /\ v25 = 0
       /\ v26 = 0 /\ v27 = 0 /\ v28 = 0 /\ v29 = 0 /\ v30 = 0
    \/ part = "reads" /\ PageReads!Init
       /\ v11 = 0 /\ v12 = 0 /\ v13 = 0 /\ v14 = 0 /\ v15 = 0 /\ v16 = 0
       /\ v17 = 0 /\ v18 = 0 /\ v19 = 0 /\ v20 = 0 /\ v21 = 0 /\ v22 = 0
       /\ v23 = 0 /\ v24 = 0 /\ v25 = 0 /\ v26 = 0 /\ v27 = 0 /\ v28 = 0
       /\ v29 = 0 /\ v30 = 0
    \/ part = "files" /\ TwoFiles!Init
       /\ v20 = 0 /\ v21 = 0 /\ v22 = 0 /\ v23 = 0 /\ v24 = 0 /\ v25 = 0
       /\ v26 = 0 /\ v27 = 0 /\ v28 = 0 /\ v29 = 0 /\ v30 = 0
    \/ part = "renames" /\ Renames!Init
       /\ v20 = 0 /\ v21 = 0 /\ v22 = 0 /\ v23 = 0 /\ v24 = 0 /\ v25 = 0
       /\ v26 = 0 /\ v27 = 0 /\ v28 = 0 /\ v29 = 0 /\ v30 = 0
    \/ part = "opens" /\ Opens!Init
       /\ v20 = 0 /\ v21 = 0 /\ v22 = 0 /\ v23 = 0 /\ v24 = 0 /\ v25 = 0
       /\ v26 = 0 /\ v27 = 0 /\ v28 = 0 /\ v29 = 0 /\ v30 = 0
    \/ part = "thumb" /\ Thumb!Init
       /\ v20 = 0 /\ v21 = 0 /\ v22 = 0 /\ v23 = 0 /\ v24 = 0 /\ v25 = 0
       /\ v26 = 0 /\ v27 = 0 /\ v28 = 0 /\ v29 = 0 /\ v30 = 0
    \/ part = "device" /\ Device!Init
       /\ v14 = 0 /\ v15 = 0 /\ v16 = 0 /\ v17 = 0 /\ v18 = 0 /\ v19 = 0
       /\ v20 = 0 /\ v21 = 0 /\ v22 = 0 /\ v23 = 0 /\ v24 = 0 /\ v25 = 0
       /\ v26 = 0 /\ v27 = 0 /\ v28 = 0 /\ v29 = 0 /\ v30 = 0
    \/ part = "mounts" /\ Mounts!Init
       /\ v14 = 0 /\ v15 = 0 /\ v16 = 0 /\ v17 = 0 /\ v18 = 0 /\ v19 = 0
       /\ v20 = 0 /\ v21 = 0 /\ v22 = 0 /\ v23 = 0 /\ v24 = 0 /\ v25 = 0
       /\ v26 = 0 /\ v27 = 0 /\ v28 = 0 /\ v29 = 0 /\ v30 = 0
    \/ part = "channel" /\ Channel!Init
       /\ v16 = 0 /\ v17 = 0 /\ v18 = 0 /\ v19 = 0 /\ v20 = 0 /\ v21 = 0
       /\ v22 = 0 /\ v23 = 0 /\ v24 = 0 /\ v25 = 0 /\ v26 = 0 /\ v27 = 0
       /\ v28 = 0 /\ v29 = 0 /\ v30 = 0
    \/ part = "channels" /\ Channels!Init
       /\ v16 = 0 /\ v17 = 0 /\ v18 = 0 /\ v19 = 0 /\ v20 = 0 /\ v21 = 0
       /\ v22 = 0 /\ v23 = 0 /\ v24 = 0 /\ v25 = 0 /\ v26 = 0 /\ v27 = 0
       /\ v28 = 0 /\ v29 = 0 /\ v30 = 0
    \/ part = "transfers" /\ Transfers!Init
       /\ v17 = 0 /\ v18 = 0 /\ v19 = 0 /\ v20 = 0 /\ v21 = 0 /\ v22 = 0
       /\ v23 = 0 /\ v24 = 0 /\ v25 = 0 /\ v26 = 0 /\ v27 = 0 /\ v28 = 0
       /\ v29 = 0 /\ v30 = 0
    \/ part = "assets" /\ Assets!Init
       /\ v17 = 0 /\ v18 = 0 /\ v19 = 0 /\ v20 = 0 /\ v21 = 0 /\ v22 = 0
       /\ v23 = 0 /\ v24 = 0 /\ v25 = 0 /\ v26 = 0 /\ v27 = 0 /\ v28 = 0
       /\ v29 = 0 /\ v30 = 0
    \/ part = "calls" /\ Calls!Init
       /\ v18 = 0 /\ v19 = 0 /\ v20 = 0 /\ v21 = 0 /\ v22 = 0 /\ v23 = 0
       /\ v24 = 0 /\ v25 = 0 /\ v26 = 0 /\ v27 = 0 /\ v28 = 0 /\ v29 = 0
       /\ v30 = 0
    \/ part = "assetcalls" /\ AssetCalls!Init
       /\ v18 = 0 /\ v19 = 0 /\ v20 = 0 /\ v21 = 0 /\ v22 = 0 /\ v23 = 0
       /\ v24 = 0 /\ v25 = 0 /\ v26 = 0 /\ v27 = 0 /\ v28 = 0 /\ v29 = 0
       /\ v30 = 0
    \/ part = "switches" /\ Switches!Init
       /\ v18 = 0 /\ v19 = 0 /\ v20 = 0 /\ v21 = 0 /\ v22 = 0 /\ v23 = 0
       /\ v24 = 0 /\ v25 = 0 /\ v26 = 0 /\ v27 = 0 /\ v28 = 0 /\ v29 = 0
       /\ v30 = 0
    \/ part = "userswitches" /\ UserSwitches!Init
       /\ v18 = 0 /\ v19 = 0 /\ v20 = 0 /\ v21 = 0 /\ v22 = 0 /\ v23 = 0
       /\ v24 = 0 /\ v25 = 0 /\ v26 = 0 /\ v27 = 0 /\ v28 = 0 /\ v29 = 0
       /\ v30 = 0
    \/ part = "settings" /\ UserSettings!Init
    \/ part = "net" /\ Net!Init
    \/ part = "cell" /\ Cell!Init
    \/ part = "heat" /\ Heat!Init
    \/ part = "cycle" /\ Cycle!Init /\ v27 = 0 /\ v28 = 0 /\ v29 = 0 /\ v30 = 0
    \/ part = "twocycles" /\ TwoCycles!Init /\ v27 = 0 /\ v28 = 0 /\ v29 = 0 /\ v30 = 0
    \/ part = "chowntask" /\ ChownTask!Init /\ v27 = 0 /\ v28 = 0 /\ v29 = 0 /\ v30 = 0
    \/ part = "cleantask" /\ CleanTask!Init /\ v27 = 0 /\ v28 = 0 /\ v29 = 0 /\ v30 = 0
    \/ part = "prunetask" /\ PruneTask!Init /\ v27 = 0 /\ v28 = 0 /\ v29 = 0 /\ v30 = 0
    \/ part = "spacetask" /\ SpaceTask!Init /\ v27 = 0 /\ v28 = 0 /\ v29 = 0 /\ v30 = 0
    \/ part = "syncstate" /\ SyncState!Init
       /\ v21 = 0 /\ v22 = 0 /\ v23 = 0 /\ v24 = 0 /\ v25 = 0 /\ v26 = 0
       /\ v27 = 0 /\ v28 = 0 /\ v29 = 0 /\ v30 = 0
    \/ part = "syncrows" /\ SyncRows!Init
       /\ v21 = 0 /\ v22 = 0 /\ v23 = 0 /\ v24 = 0 /\ v25 = 0 /\ v26 = 0
       /\ v27 = 0 /\ v28 = 0 /\ v29 = 0 /\ v30 = 0
    \/ part = "treecopy" /\ TreeCopy!Init
       /\ v22 = 0 /\ v23 = 0 /\ v24 = 0 /\ v25 = 0 /\ v26 = 0 /\ v27 = 0
       /\ v28 = 0 /\ v29 = 0 /\ v30 = 0
    \/ part = "samecopies" /\ SameCopies!Init
       /\ v22 = 0 /\ v23 = 0 /\ v24 = 0 /\ v25 = 0 /\ v26 = 0 /\ v27 = 0
       /\ v28 = 0 /\ v29 = 0 /\ v30 = 0
    \/ part = "twocopies" /\ TwoCopies!Init
       /\ v22 = 0 /\ v23 = 0 /\ v24 = 0 /\ v25 = 0 /\ v26 = 0 /\ v27 = 0
       /\ v28 = 0 /\ v29 = 0 /\ v30 = 0
    \/ part = "copyprogress" /\ CopyProgress!Init
       /\ v22 = 0 /\ v23 = 0 /\ v24 = 0 /\ v25 = 0 /\ v26 = 0 /\ v27 = 0
       /\ v28 = 0 /\ v29 = 0 /\ v30 = 0
    \/ part = "remotecopy" /\ RemoteCopy!Init
       /\ v14 = 0 /\ v15 = 0 /\ v16 = 0 /\ v17 = 0 /\ v18 = 0 /\ v19 = 0
       /\ v20 = 0 /\ v21 = 0 /\ v22 = 0 /\ v23 = 0 /\ v24 = 0 /\ v25 = 0
       /\ v26 = 0 /\ v27 = 0 /\ v28 = 0 /\ v29 = 0 /\ v30 = 0
    \/ part = "namereuse" /\ NameReuse!Init
       /\ v14 = 0 /\ v15 = 0 /\ v16 = 0 /\ v17 = 0 /\ v18 = 0 /\ v19 = 0
       /\ v20 = 0 /\ v21 = 0 /\ v22 = 0 /\ v23 = 0 /\ v24 = 0 /\ v25 = 0
       /\ v26 = 0 /\ v27 = 0 /\ v28 = 0 /\ v29 = 0 /\ v30 = 0
    \/ part = "failedcopies" /\ FailedCopies!Init
       /\ v14 = 0 /\ v15 = 0 /\ v16 = 0 /\ v17 = 0 /\ v18 = 0 /\ v19 = 0
       /\ v20 = 0 /\ v21 = 0 /\ v22 = 0 /\ v23 = 0 /\ v24 = 0 /\ v25 = 0
       /\ v26 = 0 /\ v27 = 0 /\ v28 = 0 /\ v29 = 0 /\ v30 = 0
    \/ part = "remotecopies" /\ RemoteCopies!Init
       /\ v14 = 0 /\ v15 = 0 /\ v16 = 0 /\ v17 = 0 /\ v18 = 0 /\ v19 = 0
       /\ v20 = 0 /\ v21 = 0 /\ v22 = 0 /\ v23 = 0 /\ v24 = 0 /\ v25 = 0
       /\ v26 = 0 /\ v27 = 0 /\ v28 = 0 /\ v29 = 0 /\ v30 = 0
    \/ part = "pushonce" /\ PushOnce!Init
       /\ v19 = 0 /\ v20 = 0 /\ v21 = 0 /\ v22 = 0 /\ v23 = 0 /\ v24 = 0
       /\ v25 = 0 /\ v26 = 0 /\ v27 = 0 /\ v28 = 0 /\ v29 = 0 /\ v30 = 0
    \/ part = "pushtwice" /\ PushTwice!Init
       /\ v19 = 0 /\ v20 = 0 /\ v21 = 0 /\ v22 = 0 /\ v23 = 0 /\ v24 = 0
       /\ v25 = 0 /\ v26 = 0 /\ v27 = 0 /\ v28 = 0 /\ v29 = 0 /\ v30 = 0
    \/ part = "assetrecv" /\ AssetRecv!Init
       /\ v19 = 0 /\ v20 = 0 /\ v21 = 0 /\ v22 = 0 /\ v23 = 0 /\ v24 = 0
       /\ v25 = 0 /\ v26 = 0 /\ v27 = 0 /\ v28 = 0 /\ v29 = 0 /\ v30 = 0
    \/ part = "assetclient" /\ AssetClient!Init
       /\ v19 = 0 /\ v20 = 0 /\ v21 = 0 /\ v22 = 0 /\ v23 = 0 /\ v24 = 0
       /\ v25 = 0 /\ v26 = 0 /\ v27 = 0 /\ v28 = 0 /\ v29 = 0 /\ v30 = 0
    \/ part = "ipc" /\ Ipc!Init
       /\ v18 = 0 /\ v19 = 0 /\ v20 = 0 /\ v21 = 0 /\ v22 = 0 /\ v23 = 0
       /\ v24 = 0 /\ v25 = 0 /\ v26 = 0 /\ v27 = 0 /\ v28 = 0 /\ v29 = 0
       /\ v30 = 0
    \/ part = "synclib" /\ SyncLib!Init
       /\ v19 = 0 /\ v20 = 0 /\ v21 = 0 /\ v22 = 0 /\ v23 = 0 /\ v24 = 0
       /\ v25 = 0 /\ v26 = 0 /\ v27 = 0 /\ v28 = 0 /\ v29 = 0 /\ v30 = 0
    \/ part = "assetlib" /\ AssetLib!Init
       /\ v19 = 0 /\ v20 = 0 /\ v21 = 0 /\ v22 = 0 /\ v23 = 0 /\ v24 = 0
       /\ v25 = 0 /\ v26 = 0 /\ v27 = 0 /\ v28 = 0 /\ v29 = 0 /\ v30 = 0
    \/ part = "litelib" /\ LiteLib!Init
       /\ v19 = 0 /\ v20 = 0 /\ v21 = 0 /\ v22 = 0 /\ v23 = 0 /\ v24 = 0
       /\ v25 = 0 /\ v26 = 0 /\ v27 = 0 /\ v28 = 0 /\ v29 = 0 /\ v30 = 0
    \/ part = "clouddaemonlib" /\ CloudDaemonLib!Init
       /\ v19 = 0 /\ v20 = 0 /\ v21 = 0 /\ v22 = 0 /\ v23 = 0 /\ v24 = 0
       /\ v25 = 0 /\ v26 = 0 /\ v27 = 0 /\ v28 = 0 /\ v29 = 0 /\ v30 = 0
    \/ part = "dfslib" /\ DfsLib!Init
       /\ v19 = 0 /\ v20 = 0 /\ v21 = 0 /\ v22 = 0 /\ v23 = 0 /\ v24 = 0
       /\ v25 = 0 /\ v26 = 0 /\ v27 = 0 /\ v28 = 0 /\ v29 = 0 /\ v30 = 0
    \/ part = "disklib" /\ DiskLib!Init
       /\ v19 = 0 /\ v20 = 0 /\ v21 = 0 /\ v22 = 0 /\ v23 = 0 /\ v24 = 0
       /\ v25 = 0 /\ v26 = 0 /\ v27 = 0 /\ v28 = 0 /\ v29 = 0 /\ v30 = 0
    \/ part = "jskit" /\ JsKit!Init
       /\ v19 = 0 /\ v20 = 0 /\ v21 = 0 /\ v22 = 0 /\ v23 = 0 /\ v24 = 0
       /\ v25 = 0 /\ v26 = 0 /\ v27 = 0 /\ v28 = 0 /\ v29 = 0 /\ v30 = 0
    \/ part = "anikit" /\ AniKit!Init
       /\ v19 = 0 /\ v20 = 0 /\ v21 = 0 /\ v22 = 0 /\ v23 = 0 /\ v24 = 0
       /\ v25 = 0 /\ v26 = 0 /\ v27 = 0 /\ v28 = 0 /\ v29 = 0 /\ v30 = 0
    \/ part = "syncregisters" /\ SyncRegisters!Init
       /\ v19 = 0 /\ v20 = 0 /\ v21 = 0 /\ v22 = 0 /\ v23 = 0 /\ v24 = 0
       /\ v25 = 0 /\ v26 = 0 /\ v27 = 0 /\ v28 = 0 /\ v29 = 0 /\ v30 = 0
    \/ part = "syncstarts" /\ SyncStarts!Init
       /\ v19 = 0 /\ v20 = 0 /\ v21 = 0 /\ v22 = 0 /\ v23 = 0 /\ v24 = 0
       /\ v25 = 0 /\ v26 = 0 /\ v27 = 0 /\ v28 = 0 /\ v29 = 0 /\ v30 = 0
    \/ part = "assetdownloads" /\ AssetDownloads!Init
       /\ v19 = 0 /\ v20 = 0 /\ v21 = 0 /\ v22 = 0 /\ v23 = 0 /\ v24 = 0
       /\ v25 = 0 /\ v26 = 0 /\ v27 = 0 /\ v28 = 0 /\ v29 = 0 /\ v30 = 0
    \/ part = "dfsconnects" /\ DfsConnects!Init
       /\ v19 = 0 /\ v20 = 0 /\ v21 = 0 /\ v22 = 0 /\ v23 = 0 /\ v24 = 0
       /\ v25 = 0 /\ v26 = 0 /\ v27 = 0 /\ v28 = 0 /\ v29 = 0 /\ v30 = 0
    \/ part = "accessorprogress" /\ AccessorProgress!Init
       /\ v19 = 0 /\ v20 = 0 /\ v21 = 0 /\ v22 = 0 /\ v23 = 0 /\ v24 = 0
       /\ v25 = 0 /\ v26 = 0 /\ v27 = 0 /\ v28 = 0 /\ v29 = 0 /\ v30 = 0
    \/ part = "disktables" /\ DiskTables!Init
       /\ v19 = 0 /\ v20 = 0 /\ v21 = 0 /\ v22 = 0 /\ v23 = 0 /\ v24 = 0
       /\ v25 = 0 /\ v26 = 0 /\ v27 = 0 /\ v28 = 0 /\ v29 = 0 /\ v30 = 0
    \/ part = "jscallbacks" /\ JsCallbacks!Init
       /\ v19 = 0 /\ v20 = 0 /\ v21 = 0 /\ v22 = 0 /\ v23 = 0 /\ v24 = 0
       /\ v25 = 0 /\ v26 = 0 /\ v27 = 0 /\ v28 = 0 /\ v29 = 0 /\ v30 = 0
    \/ part = "jsdownloads" /\ JsDownloads!Init
       /\ v19 = 0 /\ v20 = 0 /\ v21 = 0 /\ v22 = 0 /\ v23 = 0 /\ v24 = 0
       /\ v25 = 0 /\ v26 = 0 /\ v27 = 0 /\ v28 = 0 /\ v29 = 0 /\ v30 = 0

Next ==
    /\ UNCHANGED part
    /\ \/ part = "bin" /\ Bin!Next
          /\ UNCHANGED <<v12, v13, v14, v15, v16, v17, v18, v19, v20, v21, v22, v23, v24, v25,
            v26, v27, v28, v29, v30>>
       \/ part = "store" /\ Store!Next
          /\ UNCHANGED <<v12, v13, v14, v15, v16, v17, v18, v19, v20, v21, v22, v23, v24, v25,
            v26, v27, v28, v29, v30>>
       \/ part = "log" /\ Log!Next
          /\ UNCHANGED <<v15, v16, v17, v18, v19, v20, v21, v22, v23, v24, v25, v26, v27, v28,
            v29, v30>>
       \/ part = "migration" /\ Migration!Next
          /\ UNCHANGED <<v14, v15, v16, v17, v18, v19, v20, v21, v22, v23, v24, v25, v26, v27,
            v28, v29, v30>>
       \/ part = "video" /\ Video!Next
          /\ UNCHANGED <<v20, v21, v22, v23, v24, v25, v26, v27, v28, v29, v30>>
       \/ part = "thumbnail" /\ Thumbnail!Next
          /\ UNCHANGED <<v20, v21, v22, v23, v24, v25, v26, v27, v28, v29, v30>>
       \/ part = "inode" /\ Inode!Next
          /\ UNCHANGED <<v20, v21, v22, v23, v24, v25, v26, v27, v28, v29, v30>>
       \/ part = "reads" /\ PageReads!Next
          /\ UNCHANGED <<v11, v12, v13, v14, v15, v16, v17, v18, v19, v20, v21, v22, v23, v24,
            v25, v26, v27, v28, v29, v30>>
       \/ part = "files" /\ TwoFiles!Next
          /\ UNCHANGED <<v20, v21, v22, v23, v24, v25, v26, v27, v28, v29, v30>>
       \/ part = "renames" /\ Renames!Next
          /\ UNCHANGED <<v20, v21, v22, v23, v24, v25, v26, v27, v28, v29, v30>>
       \/ part = "opens" /\ Opens!Next
          /\ UNCHANGED <<v20, v21, v22, v23, v24, v25, v26, v27, v28, v29, v30>>
       \/ part = "thumb" /\ Thumb!Next
          /\ UNCHANGED <<v20, v21, v22, v23, v24, v25, v26, v27, v28, v29, v30>>
       \/ part = "device" /\ Device!Next
          /\ UNCHANGED <<v14, v15, v16, v17, v18, v19, v20, v21, v22, v23, v24, v25, v26, v27,
            v28, v29, v30>>
       \/ part = "mounts" /\ Mounts!Next
          /\ UNCHANGED <<v14, v15, v16, v17, v18, v19, v20, v21, v22, v23, v24, v25, v26, v27,
            v28, v29, v30>>
       \/ part = "channel" /\ Channel!Next
          /\ UNCHANGED <<v16, v17, v18, v19, v20, v21, v22, v23, v24, v25, v26, v27, v28, v29,
            v30>>
       \/ part = "channels" /\ Channels!Next
          /\ UNCHANGED <<v16, v17, v18, v19, v20, v21, v22, v23, v24, v25, v26, v27, v28, v29,
            v30>>
       \/ part = "transfers" /\ Transfers!Next
          /\ UNCHANGED <<v17, v18, v19, v20, v21, v22, v23, v24, v25, v26, v27, v28, v29, v30>>
       \/ part = "assets" /\ Assets!Next
          /\ UNCHANGED <<v17, v18, v19, v20, v21, v22, v23, v24, v25, v26, v27, v28, v29, v30>>
       \/ part = "calls" /\ Calls!Next
          /\ UNCHANGED <<v18, v19, v20, v21, v22, v23, v24, v25, v26, v27, v28, v29, v30>>
       \/ part = "assetcalls" /\ AssetCalls!Next
          /\ UNCHANGED <<v18, v19, v20, v21, v22, v23, v24, v25, v26, v27, v28, v29, v30>>
       \/ part = "switches" /\ Switches!Next
          /\ UNCHANGED <<v18, v19, v20, v21, v22, v23, v24, v25, v26, v27, v28, v29, v30>>
       \/ part = "userswitches" /\ UserSwitches!Next
          /\ UNCHANGED <<v18, v19, v20, v21, v22, v23, v24, v25, v26, v27, v28, v29, v30>>
       \/ part = "settings" /\ UserSettings!Next
       \/ part = "net" /\ Net!Next
       \/ part = "cell" /\ Cell!Next
       \/ part = "heat" /\ Heat!Next
       \/ part = "cycle" /\ Cycle!Next /\ UNCHANGED <<v27, v28, v29, v30>>
       \/ part = "twocycles" /\ TwoCycles!Next /\ UNCHANGED <<v27, v28, v29, v30>>
       \/ part = "chowntask" /\ ChownTask!Next /\ UNCHANGED <<v27, v28, v29, v30>>
       \/ part = "cleantask" /\ CleanTask!Next /\ UNCHANGED <<v27, v28, v29, v30>>
       \/ part = "prunetask" /\ PruneTask!Next /\ UNCHANGED <<v27, v28, v29, v30>>
       \/ part = "spacetask" /\ SpaceTask!Next /\ UNCHANGED <<v27, v28, v29, v30>>
       \/ part = "syncstate" /\ SyncState!Next
          /\ UNCHANGED <<v21, v22, v23, v24, v25, v26, v27, v28, v29, v30>>
       \/ part = "syncrows" /\ SyncRows!Next
          /\ UNCHANGED <<v21, v22, v23, v24, v25, v26, v27, v28, v29, v30>>
       \/ part = "treecopy" /\ TreeCopy!Next
          /\ UNCHANGED <<v22, v23, v24, v25, v26, v27, v28, v29, v30>>
       \/ part = "samecopies" /\ SameCopies!Next
          /\ UNCHANGED <<v22, v23, v24, v25, v26, v27, v28, v29, v30>>
       \/ part = "twocopies" /\ TwoCopies!Next
          /\ UNCHANGED <<v22, v23, v24, v25, v26, v27, v28, v29, v30>>
       \/ part = "copyprogress" /\ CopyProgress!Next
          /\ UNCHANGED <<v22, v23, v24, v25, v26, v27, v28, v29, v30>>
       \/ part = "remotecopy" /\ RemoteCopy!Next
          /\ UNCHANGED <<v14, v15, v16, v17, v18, v19, v20, v21, v22, v23, v24, v25, v26, v27,
            v28, v29, v30>>
       \/ part = "namereuse" /\ NameReuse!Next
          /\ UNCHANGED <<v14, v15, v16, v17, v18, v19, v20, v21, v22, v23, v24, v25, v26, v27,
            v28, v29, v30>>
       \/ part = "failedcopies" /\ FailedCopies!Next
          /\ UNCHANGED <<v14, v15, v16, v17, v18, v19, v20, v21, v22, v23, v24, v25, v26, v27,
            v28, v29, v30>>
       \/ part = "remotecopies" /\ RemoteCopies!Next
          /\ UNCHANGED <<v14, v15, v16, v17, v18, v19, v20, v21, v22, v23, v24, v25, v26, v27,
            v28, v29, v30>>
       \/ part = "pushonce" /\ PushOnce!Next
          /\ UNCHANGED <<v19, v20, v21, v22, v23, v24, v25, v26, v27, v28, v29, v30>>
       \/ part = "pushtwice" /\ PushTwice!Next
          /\ UNCHANGED <<v19, v20, v21, v22, v23, v24, v25, v26, v27, v28, v29, v30>>
       \/ part = "assetrecv" /\ AssetRecv!Next
          /\ UNCHANGED <<v19, v20, v21, v22, v23, v24, v25, v26, v27, v28, v29, v30>>
       \/ part = "assetclient" /\ AssetClient!Next
          /\ UNCHANGED <<v19, v20, v21, v22, v23, v24, v25, v26, v27, v28, v29, v30>>
       \/ part = "ipc" /\ Ipc!Next
          /\ UNCHANGED <<v18, v19, v20, v21, v22, v23, v24, v25, v26, v27, v28, v29, v30>>
       \/ part = "synclib" /\ SyncLib!Next
          /\ UNCHANGED <<v19, v20, v21, v22, v23, v24, v25, v26, v27, v28, v29, v30>>
       \/ part = "assetlib" /\ AssetLib!Next
          /\ UNCHANGED <<v19, v20, v21, v22, v23, v24, v25, v26, v27, v28, v29, v30>>
       \/ part = "litelib" /\ LiteLib!Next
          /\ UNCHANGED <<v19, v20, v21, v22, v23, v24, v25, v26, v27, v28, v29, v30>>
       \/ part = "clouddaemonlib" /\ CloudDaemonLib!Next
          /\ UNCHANGED <<v19, v20, v21, v22, v23, v24, v25, v26, v27, v28, v29, v30>>
       \/ part = "dfslib" /\ DfsLib!Next
          /\ UNCHANGED <<v19, v20, v21, v22, v23, v24, v25, v26, v27, v28, v29, v30>>
       \/ part = "disklib" /\ DiskLib!Next
          /\ UNCHANGED <<v19, v20, v21, v22, v23, v24, v25, v26, v27, v28, v29, v30>>
       \/ part = "jskit" /\ JsKit!Next
          /\ UNCHANGED <<v19, v20, v21, v22, v23, v24, v25, v26, v27, v28, v29, v30>>
       \/ part = "anikit" /\ AniKit!Next
          /\ UNCHANGED <<v19, v20, v21, v22, v23, v24, v25, v26, v27, v28, v29, v30>>
       \/ part = "syncregisters" /\ SyncRegisters!Next
          /\ UNCHANGED <<v19, v20, v21, v22, v23, v24, v25, v26, v27, v28, v29, v30>>
       \/ part = "syncstarts" /\ SyncStarts!Next
          /\ UNCHANGED <<v19, v20, v21, v22, v23, v24, v25, v26, v27, v28, v29, v30>>
       \/ part = "assetdownloads" /\ AssetDownloads!Next
          /\ UNCHANGED <<v19, v20, v21, v22, v23, v24, v25, v26, v27, v28, v29, v30>>
       \/ part = "dfsconnects" /\ DfsConnects!Next
          /\ UNCHANGED <<v19, v20, v21, v22, v23, v24, v25, v26, v27, v28, v29, v30>>
       \/ part = "accessorprogress" /\ AccessorProgress!Next
          /\ UNCHANGED <<v19, v20, v21, v22, v23, v24, v25, v26, v27, v28, v29, v30>>
       \/ part = "disktables" /\ DiskTables!Next
          /\ UNCHANGED <<v19, v20, v21, v22, v23, v24, v25, v26, v27, v28, v29, v30>>
       \/ part = "jscallbacks" /\ JsCallbacks!Next
          /\ UNCHANGED <<v19, v20, v21, v22, v23, v24, v25, v26, v27, v28, v29, v30>>
       \/ part = "jsdownloads" /\ JsDownloads!Next
          /\ UNCHANGED <<v19, v20, v21, v22, v23, v24, v25, v26, v27, v28, v29, v30>>

Spec == Init /\ [][Next]_vars

-----------------------------------------------------------------------------
(* The variables of a component have their types, in one or more instances *)
(* of each component but the migration; the table of operations keeps its  *)
(* bound.                                                                  *)
TypeOK ==
    /\ part = "store" => Store!TypeOK
    /\ part = "log" => Log!TypeOK
    /\ part = "video" => Video!TypeOK
    /\ part = "thumbnail" => Thumbnail!TypeOK
    /\ part = "reads" => PageReads!TypeOK
    /\ part = "files" => TwoFiles!TypeOK
    /\ part = "calls" => Calls!TypeOK
    /\ part = "net" => Net!TypeOK
    /\ part = "assets" => Assets!TypeOK
    /\ part = "pushtwice" => PushTwice!TypeOK
    /\ part = "channel" => Channel!TypeOK
    /\ part = "device" => Device!TypeOK
    /\ part = "syncrows" => SyncRows!TypeOK
    /\ part = "cycle" => Cycle!TypeOK
    /\ part = "chowntask" => ChownTask!TypeOK
    /\ part = "treecopy" => TreeCopy!TypeOK
    /\ part = "remotecopy" => RemoteCopy!TypeOK
    /\ part = "ipc" => Ipc!TypeOK
    /\ part = "synclib" => SyncLib!TypeOK
    /\ part = "disklib" => DiskLib!TypeOK

(* A file that its database lists is found under its name in the dentry    *)
(* file of its directory, and no other is, once a call is over, however    *)
(* transactions fail; and a change that the cloud must learn of has        *)
(* scheduled a sync. Excepted are the files whose own update failed, died  *)
(* with the daemon or was overtaken by the detached thread of a rename,    *)
(* and the changes of a trigger whose timer failed or was lost with the    *)
(* daemon.                                                                 *)
FilesAreListedAndScheduled ==
    /\ part = "store" => Store!ListedIsFound
    /\ part = "bin" => Bin!ListedIsFound
    /\ part = "store" => Store!ChangesAreScheduled
    /\ part = "bin" => Bin!ChangesAreScheduled

(* No change is lost on its way to the cloud: while the databases of the   *)
(* applications are moved, a change waits or is made in the database that  *)
(* stays; and a deletion put on the operation log is in its queue, in its  *)
(* file or in the directory, unless the queue was full. Excepted is an     *)
(* application that opened a database of its own before its rows were      *)
(* copied there, or the old one between the look at its copy and the       *)
(* second marker.                                                          *)
NoChangeIsLost ==
    /\ part = "migration" => Migration!NoChangeIsLost
    /\ part = "log" => Log!DeletionsAreLogged

(* A read of the cloud file systems gets its data: a page marked as cached *)
(* is in the cache file, the slices cover the read, and a read that waits  *)
(* for a page is woken when the page is there or its download has ended,   *)
(* whatever the order of marking, waiting and cancelling. The open handles *)
(* of a file and the count of their shared read session agree through      *)
(* opens that fail, time out or meet, an open of a thumbnail finds the     *)
(* copy another open made, unless it was removed since, and lookups are    *)
(* counted until the kernel forgets them. A rename, into the trash and out *)
(* of it too, moves the file that has the name, its inode follows it, and  *)
(* the trash lists it under its own row; excepted are a name given to      *)
(* another file while its key was still there and the files a rename by    *)
(* such a key, or without one, moved, up to their next lookup.             *)
ReadsAreServed ==
    /\ part = "video" => Video!CachedPagesAreThere
    /\ part = "video" => Video!SlicesCoverTheRead
    /\ part = "reads" => PageReads!ReadsAreWoken
    /\ part = "files" => TwoFiles!ReadSessionsAreCounted
    /\ part = "opens" => Opens!ReadSessionsAreCounted
    /\ part = "thumb" => Thumb!ThumbnailsAreThere
    /\ part = "files" => TwoFiles!RenamesFindTheNamedFile
    /\ part = "files" => TwoFiles!FilesAreWhereTheirInodesSay
    /\ part = "renames" => Renames!RenamesFindTheNamedFile
    /\ part = "renames" => Renames!FilesAreWhereTheirInodesSay
    /\ part = "video" => Video!SessionMatchesHandles
    /\ part = "thumbnail" => Thumbnail!SessionMatchesHandles
    /\ part = "inode" => Inode!LookupsAreCounted

(* The engine is asked only for bundles and users that the caller may act  *)
(* for; the cached switch of an application is the one set last once its   *)
(* change is over, but for one cached for another user than the current    *)
(* one or set by a notification for another; and the flag that stops syncs *)
(* is set while a switch-off is under way and no longer, although its stop *)
(* may fail, unless another switch-off that ended has cleared it.          *)
ServiceServesItsCaller ==
    /\ part = "calls" => Calls!EngineServesItsCaller
    /\ part = "assetcalls" => AssetCalls!EngineServesItsCaller
    /\ part = "userswitches" => UserSwitches!SwitchCacheIsCurrent
    /\ part = "switches" => Switches!StopFlagCoversSwitchOffs

(* What the service decides by is current: a cached setting is the user's  *)
(* once notifications and queries are done, the network status is the last *)
(* one reported, no upload goes on over a network the user has forbidden,  *)
(* unless a stop came between its check and its begin, and a sync stopped  *)
(* by the temperature is resumed.                                          *)
SyncConditionsAreCurrent ==
    /\ part = "settings" => UserSettings!SettingsAreCurrent
    /\ part = "net" => Net!CallbacksWin
    /\ part = "cell" => Cell!CallbacksWin
    /\ part = "cell" => Cell!UploadsRespectThePermission
    /\ part = "heat" => Heat!StoppedSyncsResume

(* The count of the asset transfers, which keeps the service loaded, is    *)
(* the number of the downloads under way until a session breaks; after     *)
(* that, too, it is back at zero once nothing is under way, but for the    *)
(* downloads whose request or answer was not sent or not understood. A     *)
(* download hears one result at most, and that of the device that served   *)
(* it.                                                                     *)
TransfersAreCounted ==
    /\ part = "transfers" => Transfers!TransfersAreCounted
    /\ part = "assets" => Assets!TransfersAreCounted
    /\ part = "assets" => Assets!ResultsAreTheServers

(* The connection to another device can always still be released: a        *)
(* session that this device opened, or is about to open, has a record of   *)
(* its agent that a disconnect goes by or a releasing command behind it,   *)
(* and the count of the mounts and the storage manager agree, however      *)
(* closing applications, their deaths, failed connects, the switch and the *)
(* device manager meet. What a request over a control channel returns the  *)
(* server answered to that very request, however late answers are and also *)
(* when a clean-up destroys the channel meanwhile, and the server keeps    *)
(* the socket in use whatever the order of closes and connects.            *)
ConnectionsAreReleased ==
    /\ part = "device" => Device!SessionsCanBeReleased
    /\ part = "device" => Device!MountsAreRecorded
    /\ part = "mounts" => Mounts!SessionsCanBeReleased
    /\ part = "mounts" => Mounts!MountsAreRecorded
    /\ part = "channel" => Channel!AnswersMatch
    /\ part = "channel" => Channel!ServerKnowsTheChannel
    /\ part = "channels" => Channels!AnswersMatch
    /\ part = "channels" => Channels!ServerKnowsTheChannel

(* The tasks of the cycle runner do what their marks say, whatever         *)
(* interrupts them: successful runs are an interval apart, a directory     *)
(* marked as done has no file left to give away but those its pass failed  *)
(* at or did not reach after an error of the iterator, only stale caches   *)
(* are moved away unless a sync was started without the lock, no row of a  *)
(* pruned database is lost, and an undisturbed report is exact. At most    *)
(* one sync of an application runs, and of a request told to wait the      *)
(* engine is told at the end of what it waits for; an application has one  *)
(* row, whose download size is the sum of what was added; and an earlier   *)
(* database goes only after its import, unless that failed or a failure or *)
(* a death had left a new database without it.                             *)
RecordsSurviveTasks ==
    /\ part = "cycle" => Cycle!RunsAreSpaced
    /\ part = "twocycles" => TwoCycles!RunsAreSpaced
    /\ part = "chowntask" => ChownTask!DoneMeansChowned
    /\ part = "cleantask" => CleanTask!OnlyStaleCachesGo
    /\ part = "prunetask" => PruneTask!RowsAreKept
    /\ part = "spacetask" => SpaceTask!ReportsAreExact
    /\ part = "syncstate" => SyncState!OneSyncAtATime
    /\ part = "syncrows" => SyncRows!OneRowPerApplication
    /\ part = "syncrows" => SyncRows!ImportKeepsRows

(* A copy on this device can be cancelled while it is under way, stops at  *)
(* the chunk it is at and leaves at most one file behind; its progress     *)
(* thread is woken and never reports after the end, and no report goes     *)
(* back unless one of the thread met the last one. A cancel of all copies  *)
(* stops each of them. Transfers between devices end with a notice: a      *)
(* client that waits for a copy can still be told, and no session,         *)
(* listener or socket is left after the last one, up to names left by a    *)
(* time-out, a refusal or an early cancel, and to copies that met under    *)
(* one name that the end of the other, or its failed preparation, was      *)
(* still at; a pushed asset is told its result and leaves no zip file; a   *)
(* receiver is told one end of what it was told the start of; and the      *)
(* listeners of an application are registered again after the daemon       *)
(* restarts.                                                               *)
CopiesEndAsTold ==
    /\ part = "treecopy" => TreeCopy!CancelStopsTheCopy
    /\ part = "twocopies" => TwoCopies!CancelStopsTheCopy
    /\ part = "samecopies" => SameCopies!CopiesCanBeCancelled
    /\ part = "twocopies" => TwoCopies!CopiesCanBeCancelled
    /\ part = "copyprogress" => CopyProgress!ListenerStops
    /\ part = "remotecopy" => RemoteCopy!WaitingIsTold
    /\ part = "remotecopy" => RemoteCopy!NothingIsLeft
    /\ part = "namereuse" => NameReuse!WaitingIsTold
    /\ part = "namereuse" => NameReuse!NothingIsLeft
    /\ part = "failedcopies" => FailedCopies!WaitingIsTold
    /\ part = "failedcopies" => FailedCopies!NothingIsLeft
    /\ part = "remotecopies" => RemoteCopies!WaitingIsTold
    /\ part = "remotecopies" => RemoteCopies!NothingIsLeft
    /\ part = "pushonce" => PushOnce!SenderIsTold
    /\ part = "assetrecv" => AssetRecv!ReceiverIsTold
    /\ part = "assetclient" => AssetClient!ListenersAreRegistered

(* A call between two processes is understood: the service gets the        *)
(* arguments the caller gave, a request is refused for a reason only, and  *)
(* a caller that is told of success has got it.                            *)
CallsAreUnderstood ==
    /\ part = "ipc" => Ipc!ArgumentsArrive
    /\ part = "ipc" => Ipc!RefusedForAReason
    /\ part = "ipc" => Ipc!SuccessIsReal

(* However calls, deaths and starts of the service meet, a client stays    *)
(* registered: a service started anew knows every callback that the client *)
(* lists; a client that counts on being told of its death is told, but for *)
(* the asset client and the client of the cloud daemon, which do not look  *)
(* at the result of AddDeathRecipient; an asset callback, a callback table *)
(* or a progress callback that one side has, the other has too, up to the  *)
(* races named with each; and a script object holds no callback that is    *)
(* not listed.                                                             *)
ClientsStayRegistered ==
    /\ part = "synclib" => SyncLib!CallbacksAreKnownAgain
    /\ part = "syncregisters" => SyncRegisters!CallbacksAreKnownAgain
    /\ part = "synclib" => SyncLib!FlagMeansLinked
    /\ part = "litelib" => LiteLib!FlagMeansLinked
    /\ part = "disklib" => DiskLib!FlagMeansLinked
    /\ part = "syncregisters" => SyncRegisters!FlagMeansLinked
    /\ part = "syncstarts" => SyncStarts!FlagMeansLinked
    /\ part = "assetlib" => AssetLib!AssetCallbackIsKnown
    /\ part = "assetdownloads" => AssetDownloads!AssetCallbackIsKnown
    /\ part = "accessorprogress" => AccessorProgress!KnownCallbacksAreServed
    /\ part = "disktables" => DiskTables!KnownCallbacksAreServed
    /\ part = "jskit" => JsKit!HeldCallbackIsListed
    /\ part = "jscallbacks" => JsCallbacks!HeldCallbackIsListed

(* A function of a client library or of a script interface tells what the  *)
(* service said: it uses no service that was dead before it began, a       *)
(* success was served, a script learns no code of the native library, and  *)
(* no start is left pending, but for the functions named with each. The    *)
(* freshness of the proxy is not claimed of the lite library, which keeps  *)
(* the proxy it has.                                                       *)
ResultsAreTheServices ==
    /\ part = "synclib" => SyncLib!PendingIsCleared
    /\ part = "syncstarts" => SyncStarts!PendingIsCleared
    /\ part = "jskit" => JsKit!PendingIsCleared
    /\ part = "anikit" => AniKit!PendingIsCleared
    /\ part = "synclib" => SyncLib!ProxiesAreFresh
    /\ part = "assetlib" => AssetLib!ProxiesAreFresh
    /\ part = "clouddaemonlib" => CloudDaemonLib!ProxiesAreFresh
    /\ part = "disklib" => DiskLib!ProxiesAreFresh
    /\ part = "syncregisters" => SyncRegisters!ProxiesAreFresh
    /\ part = "assetdownloads" => AssetDownloads!ProxiesAreFresh
    /\ part = "synclib" => SyncLib!SuccessIsServed
    /\ part = "assetlib" => AssetLib!SuccessIsServed
    /\ part = "litelib" => LiteLib!SuccessIsServed
    /\ part = "clouddaemonlib" => CloudDaemonLib!SuccessIsServed
    /\ part = "dfslib" => DfsLib!SuccessIsServed
    /\ part = "disklib" => DiskLib!SuccessIsServed
    /\ part = "jskit" => JsKit!SuccessIsServed
    /\ part = "anikit" => AniKit!SuccessIsServed
    /\ part = "jsdownloads" => JsDownloads!SuccessIsServed
    /\ part = "jskit" => JsKit!NoNativeCode
    /\ part = "anikit" => AniKit!NoNativeCode

=============================================================================
