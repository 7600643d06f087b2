----------------------------- MODULE OperationLog -----------------------------
(***************************************************************************)
(* The log of deletions of the cloud disk: callers record, a thread writes *)
(* batches to a table, periodic tasks clean and report.                    *)
(*   services/clouddisk_database/src/operation_log/operation_log_handler   *)
(*   services/clouddisk_database/src/operation_log/operation_log_queue.cpp *)
(*   services/clouddisk_database/src/operation_log/operation_log_store.cpp *)
(*                                                                         *)
(* A record is [id, dir]: the order in which it was accepted, and the      *)
(* directory of the deleted file.                                          *)
(***************************************************************************)
EXTENDS Integers, Sequences, FiniteSets, SequencesExt

CONSTANTS
    Callers, Dirs,
    MaxQueue,      \* MAX_QUEUE_SIZE
    BatchSize,     \* BATCH_SIZE
    MaxRecords,    \* MAX_RECORD_COUNT
    CleanBatch,    \* DELETE_BATCH_SIZE
    MaxRetries,    \* MAX_RETRIES
    MaxDirs,       \* MAX_DIR_COUNT_THRESHOLD
    MaxCounted,    \* MAX_ITERATIONS times BATCH_SIZE of QueryDirFileCounts
    MaxCalls,      \* bound on records
    MaxStops       \* bound on restarts of the writer

VARIABLES
    inited, running, stopping,   \* isInited_, running_, stopping_
    thread,     \* the writer: "none", "loop", "drain" or "gone" (not joined)
    queue,
    batch, tries,
    table,
    callers,    \* callers[p]: "idle", or the record about to be pushed
    accepted,   \* records of calls that returned E_OK
    dropped,    \* records refused by the queue or given up by the writer
    cleaned,    \* records taken out of the table
    calls, stops

vars == <<inited, running, stopping, thread, queue, batch, tries, table, callers,
          accepted, dropped, cleaned, calls, stops>>
writer == <<thread, queue, batch, tries, table, cleaned>>
life == <<inited, running, stopping, stops>>

Idle == [id |-> 0, dir |-> ""]

Init ==
    /\ inited = FALSE /\ running = FALSE /\ stopping = FALSE /\ thread = "none"
    /\ queue = << >> /\ batch = << >> /\ tries = 0 /\ table = << >>
    /\ callers = [p \in Callers |-> Idle] /\ accepted = {} /\ dropped = {} /\ cleaned = {}
    /\ calls = 0 /\ stops = 0

-----------------------------------------------------------------------------
(* The store opens its database, once.                                     *)
InitHandler ==
    /\ ~inited /\ inited' = TRUE
    /\ UNCHANGED <<running, stopping, stops, callers, accepted, dropped, calls>>
    /\ UNCHANGED writer

Reset == stopping' = FALSE /\ queue' = << >>

(* Start joins a writer that has ended; Stop wakes it and waits for it.    *)
Start ==
    /\ inited /\ ~running /\ thread \in {"none", "gone"}
    /\ Reset /\ running' = TRUE /\ thread' = "loop"
    /\ UNCHANGED <<inited, batch, tries, table, callers, accepted, dropped, cleaned, calls, stops>>

Shutdown == stopping' = TRUE

Stop ==
    /\ running /\ stops < MaxStops /\ stops' = stops + 1
    /\ Shutdown /\ running' = FALSE
    /\ UNCHANGED <<inited, callers, accepted, dropped, calls>> /\ UNCHANGED writer

(* RecordDelete looks before it pushes, and answers E_OK whatever Push     *)
(* does.                                                                   *)
RecordDelete(p, d) ==
    /\ calls < MaxCalls /\ callers[p] = Idle
    /\ inited /\ running /\ Len(queue) < MaxQueue
    /\ calls' = calls + 1
    /\ callers' = [callers EXCEPT ![p] = [id |-> calls + 1, dir |-> d]]
    /\ UNCHANGED <<accepted, dropped>> /\ UNCHANGED life /\ UNCHANGED writer

PushUnbounded(r) ==
    IF stopping THEN dropped' = dropped \cup {r} /\ UNCHANGED queue
    ELSE queue' = Append(queue, r) /\ UNCHANGED dropped

Push(r) ==
    IF stopping \/ Len(queue) >= MaxQueue
    THEN dropped' = dropped \cup {r} /\ UNCHANGED queue
    ELSE queue' = Append(queue, r) /\ UNCHANGED dropped

PushRecord(p) ==
    /\ callers[p] # Idle
    /\ Push(callers[p])
    /\ accepted' = accepted \cup {callers[p]}
    /\ callers' = [callers EXCEPT ![p] = Idle]
    /\ UNCHANGED <<thread, batch, tries, table, cleaned, calls>> /\ UNCHANGED life

-----------------------------------------------------------------------------
(* The writer takes up to BATCH_SIZE records; while it is not stopped it   *)
(* goes on, then it empties the queue and ends.                            *)
PopBatch ==
    LET n == IF Len(queue) < BatchSize THEN Len(queue) ELSE BatchSize IN
    /\ thread \in {"loop", "drain"} /\ batch = << >> /\ queue # << >>
    /\ batch' = SubSeq(queue, 1, n)
    /\ queue' = SubSeq(queue, n + 1, Len(queue))
    /\ tries' = 0
    /\ UNCHANGED <<thread, table, callers, accepted, dropped, cleaned, calls>>
    /\ UNCHANGED life

WriteThreadLoop ==
    /\ batch = << >>
    /\ \/ thread = "loop" /\ ~running /\ thread' = "drain"
       \/ thread = "drain" /\ queue = << >> /\ thread' = "gone"
    /\ UNCHANGED <<queue, batch, tries, table, callers, accepted, dropped, cleaned, calls>>
    /\ UNCHANGED life

(* A full table loses its oldest records before a batch is inserted.       *)
CheckAndCleanRecords(t) ==
    IF Len(t) >= MaxRecords THEN SubSeq(t, CleanBatch + 1, Len(t)) ELSE t

(* One try: all records of the batch, or none (the cleaning stays).        *)
DoInsert ==
    /\ batch # << >>
    /\ table' = CheckAndCleanRecords(table) \o batch
    /\ cleaned' = cleaned \cup (ToSet(table) \ ToSet(CheckAndCleanRecords(table)))
    /\ batch' = << >>
    /\ UNCHANGED <<thread, queue, tries, callers, accepted, dropped, calls>> /\ UNCHANGED life

(* WriteBatch tries again after an error that may pass; a batch that       *)
(* cannot be written is given up.                                          *)
InsertFails ==
    /\ batch # << >>
    /\ table' = CheckAndCleanRecords(table)
    /\ cleaned' = cleaned \cup (ToSet(table) \ ToSet(CheckAndCleanRecords(table)))
    /\ \/ /\ tries + 1 < MaxRetries /\ tries' = tries + 1
          /\ UNCHANGED <<batch, dropped>>
       \/ /\ batch' = << >> /\ UNCHANGED tries
          /\ dropped' = dropped \cup ToSet(batch)
    /\ UNCHANGED <<thread, queue, callers, accepted, calls>> /\ UNCHANGED life

(* Older than CLEAN_THRESHOLD_DAYS: a prefix of the table, as records are  *)
(* accepted in the order of their times.                                   *)
CleanOldRecords ==
    /\ table # << >>
    /\ \E n \in 1..Len(table) :
          /\ table' = SubSeq(table, n + 1, Len(table))
          /\ cleaned' = cleaned \cup ToSet(SubSeq(table, 1, n))
    /\ UNCHANGED <<thread, queue, batch, tries, callers, accepted, dropped, calls>>
    /\ UNCHANGED life

CleanAllRecords ==
    /\ table # << >> /\ table' = << >> /\ cleaned' = cleaned \cup ToSet(table)
    /\ UNCHANGED <<thread, queue, batch, tries, callers, accepted, dropped, calls>>
    /\ UNCHANGED life

Next ==
    \/ InitHandler \/ Start \/ Stop
    \/ \E p \in Callers : PushRecord(p) \/ \E d \in Dirs : RecordDelete(p, d)
    \/ PopBatch \/ WriteThreadLoop \/ DoInsert \/ InsertFails
    \/ CleanOldRecords \/ CleanAllRecords

Spec == Init /\ [][Next]_vars

-----------------------------------------------------------------------------
(* The report: the number of deletions of each directory, or one sum when  *)
(* there are too many directories.  Only the first MaxCounted rows are     *)
(* looked at to find the directories; each is then counted by itself.      *)
Counted == SubSeq(table, 1, IF Len(table) < MaxCounted THEN Len(table) ELSE MaxCounted)

QueryDirFileCounts ==
    [d \in {r.dir : r \in ToSet(Counted)} |->
        Len(SelectSeq(Counted, LAMBDA r : r.dir = d))]

ReportFileStats(d) == {<<d, r.id, 1>> : r \in {x \in ToSet(table) : x.dir = d}}

ReportDirStats(d) == {<<d, 0, Len(SelectSeq(table, LAMBDA r : r.dir = d))>>}

ReportOperationLogStat ==
    LET count == QueryDirFileCounts IN
    IF Cardinality(DOMAIN count) > MaxDirs
    THEN {<<"common", 0, FoldSet(LAMBDA d, n : n + count[d], 0, DOMAIN count)>>}
    ELSE UNION {IF count[d] < 2 THEN ReportFileStats(d) ELSE ReportDirStats(d) :
                d \in DOMAIN count}

(* Types and bounds: the queue keeps to MAX_QUEUE_SIZE although callers    *)
(* look at its size before they push, and a batch to BATCH_SIZE.           *)
TypeOK ==
    /\ inited \in BOOLEAN /\ running \in BOOLEAN /\ stopping \in BOOLEAN
    /\ thread \in {"none", "loop", "drain", "gone"}
    /\ Len(queue) <= MaxQueue /\ Len(batch) <= BatchSize
    /\ Len(table) <= MaxRecords + BatchSize - 1

(* Every record that was accepted is at exactly one place: in the queue,   *)
(* in the writer's batch, in the table, cleaned out of it, or given up (by *)
(* a full or stopping queue, or a table that could not be written).        *)
(* Stopping the writer loses none and none is written twice; what the      *)
(* report counts adds up to the table, or at least to the part of it that  *)
(* QueryDirFileCounts looks at.                                            *)
DeletionsAreLogged ==
    LET rest == table \o batch \o queue
        reported == FoldSet(LAMBDA x, n : n + x[3], 0, ReportOperationLogStat)
    IN
    /\ \A i, j \in DOMAIN rest : rest[i] = rest[j] => i = j
    /\ accepted = ToSet(rest) \cup dropped \cup cleaned
    /\ ToSet(rest) \cap (dropped \cup cleaned) = {} /\ dropped \cap cleaned = {}
    /\ thread \in {"none", "gone"} => rest = table
    /\ reported \in Len(Counted)..Len(table)
=============================================================================
