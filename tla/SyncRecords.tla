------------------------------ MODULE SyncRecords ------------------------------
(***************************************************************************)
(* What the cloud sync service keeps about the syncs of an application:    *)
(* whether one is running and what is to follow it (SyncStateManager), and *)
(* the rows of data_syncer.db (DataSyncerRdbStore), of which one is kept   *)
(* per user and application.                                               *)
(***************************************************************************)
EXTENDS Integers, FiniteSets

CONSTANTS
    Kinds,      \* subset of {"state", "rows"}
    Threads,
    Sizes,      \* sizes that a download adds
    MaxOps,
    MaxFaults

VARIABLES
    state,      \* state_: "idle" or "syncing"
    next,       \* nextAction_
    signals,    \* syncSignal: subset of {"cleaning", "disable"}
    stopFlag,   \* stopSyncFlag_
    running,    \* syncs that the engine runs
    pending,    \* a request was told to wait
    told,       \* actions other than STOP that the engine was given and has not taken
    file,       \* the database: "none", "old" (of an earlier version), "new"
    source,     \* the database at its earlier place is still there
    restore,    \* restoreFlag of the RdbInit under way, or "none"
    imported,   \* history: nothing was left to import, or it was imported
    hurt,       \* history: the import failed, or a failure or the death of the
                \* service left a new database without it
    indexed,    \* the unique index exists
    rows,       \* rows of the application
    size,       \* TOTAL_DOWNLOAD_SIZE
    added,      \* the sum of what was added
    call,       \* thread -> [at, size, read]
    lock,       \* totalDownloadSizeMutex_
    ops, faults

stateVars == <<state, next, signals, stopFlag, running, pending, told>>
rowVars == <<file, source, restore, imported, hurt, indexed, rows, size, added, call, lock>>
vars == <<stateVars, rowVars, ops, faults>>

Resting == [at |-> "idle", size |-> 0, read |-> 0]

TypeOK ==
    /\ state \in {"idle", "syncing"} /\ next \in {"STOP", "START", "FORCE_START", "CHECK"}
    /\ signals \subseteq {"cleaning", "disable"} /\ running \in Nat /\ told \in Nat
    /\ file \in {"none", "old", "new"} /\ rows \in Nat

Init ==
    /\ state = "idle" /\ next = "STOP" /\ signals = {} /\ stopFlag = FALSE /\ running = 0 /\ pending = FALSE /\ told = 0
    /\ file \in {"none", "old"} /\ source \in BOOLEAN /\ rows \in (IF file = "old" THEN 0 .. 2 ELSE {0})
    /\ restore = "none" /\ imported = (file = "old" \/ ~source) /\ hurt = FALSE /\ indexed = FALSE /\ size = 0 /\ added = 0
    /\ call = [t \in Threads |-> Resting] /\ lock = "free" /\ ops = 0 /\ faults = 0

Op == ops < MaxOps /\ ops' = ops + 1 /\ UNCHANGED faults
Fault == faults < MaxFaults /\ faults' = faults + 1

-----------------------------------------------------------------------------
(* The state of the sync                                                   *)

CanStart == signals = {} /\ state # "syncing"

\* CheckAndSetPending: a request is taken, or waits.  A waiting check stays a
\* check.
Request(force, check) ==
    IF CanStart
    THEN /\ state' = "syncing" /\ next' = "STOP" /\ running' = running + 1 /\ pending' = FALSE
    ELSE /\ next' = CASE next = "CHECK" -> next
                      [] force -> "FORCE_START"
                      [] check -> "CHECK"
                      [] OTHER -> "START"
         /\ pending' = TRUE /\ UNCHANGED <<state, running>>

CheckAndSetPending(force, check) ==
    /\ Op /\ Request(force, check)
    /\ UNCHANGED <<signals, stopFlag, told, rowVars>>

\* The action that the end of a sync or of a clean-up returns to the engine.
Tell == told' = IF next = "STOP" THEN told ELSE told + 1

UpdateSyncState ==
    /\ running > 0 /\ running' = running - 1
    /\ state' = "idle" /\ stopFlag' = FALSE /\ Tell
    /\ UNCHANGED <<next, signals, pending, rowVars, ops, faults>>

SetFlag(signal) ==
    /\ Op /\ signals' = signals \cup {signal} /\ next' = "STOP" /\ pending' = FALSE
    /\ UNCHANGED <<state, stopFlag, running, told, rowVars>>

ClearFlag(signal) ==
    /\ signal \in signals /\ signals' = signals \ {signal} /\ Tell
    /\ UNCHANGED <<state, next, stopFlag, running, pending, rowVars, ops, faults>>

SetStopSyncFlag ==
    /\ Op /\ next' = "STOP" /\ stopFlag' = TRUE /\ pending' = FALSE
    /\ UNCHANGED <<state, signals, running, told, rowVars>>

\* The engine takes the action it was given: it asks again, in
\* one way or another.
EngineActs(force, check) ==
    /\ told > 0 /\ told' = told - 1 /\ Request(force, check)
    /\ UNCHANGED <<signals, stopFlag, rowVars, ops, faults>>

State ==
    \/ \E force, check \in BOOLEAN : CheckAndSetPending(force, check) \/ EngineActs(force, check)
    \/ UpdateSyncState \/ SetStopSyncFlag
    \/ \E s \in {"cleaning", "disable"} : SetFlag(s) \/ ClearFlag(s)

-----------------------------------------------------------------------------
(* The database                                                            *)

\* RdbInit: a database is created with its unique index, or an old one gets
\* it by an upgrade.  A failure of the upgrade (rows that are there twice) is
\* passed over and not met again.  A new database takes over an earlier one,
\* unless the look for that one fails.
RdbInit(seen) ==
    /\ restore = "none" /\ ops < MaxOps /\ ops' = ops + 1
    /\ IF seen THEN UNCHANGED <<faults, hurt>> ELSE file = "none" /\ source /\ Fault /\ hurt' = TRUE
    /\ restore' = IF file = "none" /\ source /\ seen THEN "import" ELSE "delete"
    /\ indexed' = CASE file = "none" -> TRUE [] file = "old" -> rows <= 1 [] OTHER -> indexed
    /\ file' = "new"
    /\ UNCHANGED <<stateVars, source, imported, rows, size, added, call, lock>>

\* The path cannot be made or looked at, or the database cannot be opened; a
\* later call tries again, and finds what the failed opening has created.
RdbInitFails(created) ==
    /\ restore = "none" /\ Fault
    /\ file' = IF created /\ file = "none" THEN "old" ELSE file
    /\ hurt' = (hurt \/ (created /\ file = "none" /\ source))
    /\ UNCHANGED <<stateVars, source, restore, imported, indexed, rows, size, added, call, lock, ops>>

ImportDb(ok) ==
    /\ restore = "import" /\ restore' = "delete"
    /\ IF ok THEN imported' = TRUE /\ rows' = 1 /\ UNCHANGED <<faults, hurt>>
       ELSE Fault /\ hurt' = TRUE /\ UNCHANGED <<imported, rows>>
    /\ UNCHANGED <<stateVars, file, source, indexed, size, added, call, lock, ops>>

\* The earlier database goes whether or not it was imported, if it can be
\* deleted.
DeleteRdbStore(ok) ==
    /\ restore = "delete" /\ restore' = "open"
    /\ IF ok THEN source' = FALSE /\ UNCHANGED faults ELSE Fault /\ UNCHANGED source
    /\ UNCHANGED <<stateVars, file, imported, hurt, indexed, rows, size, added, call, lock, ops>>

\* The service dies; what is in the files stays.
Restart ==
    /\ Fault /\ restore' = "none" /\ call' = [t \in Threads |-> Resting] /\ lock' = "free"
    /\ hurt' = (hurt \/ restore = "import")
    /\ UNCHANGED <<stateVars, file, source, imported, indexed, rows, size, added, ops>>

Begin(t, at, s) ==
    /\ restore = "open" /\ call[t] = Resting /\ Op
    /\ call' = [call EXCEPT ![t] = [at |-> at, size |-> s, read |-> 0]]
    /\ UNCHANGED <<stateVars, file, source, restore, imported, hurt, indexed, rows, size, added, lock>>

\* A query or a change of the database fails, and the call with it.
CallFails(t) ==
    /\ call[t] # Resting /\ (call[t].at = "add" => lock = "free") /\ Fault
    /\ call' = [call EXCEPT ![t] = Resting] /\ lock' = IF lock = t THEN "free" ELSE lock
    /\ UNCHANGED <<stateVars, file, source, restore, imported, hurt, indexed, rows, size, added, ops>>

Unique == ~indexed \/ rows = 0

\* Insert: a look, and an insertion that the unique index may refuse.
InsertLook(t) ==
    /\ call[t].at = "look"
    /\ call' = [call EXCEPT ![t] = IF rows > 0 THEN Resting ELSE [@ EXCEPT !.at = "insert"]]
    /\ UNCHANGED <<stateVars, file, source, restore, imported, hurt, indexed, rows, size, added, lock, ops, faults>>

Insert(t) ==
    /\ call[t].at = "insert" /\ call' = [call EXCEPT ![t] = Resting]
    /\ rows' = IF Unique THEN rows + 1 ELSE rows
    /\ UNCHANGED <<stateVars, file, source, restore, imported, hurt, indexed, size, added, lock, ops, faults>>

LockFree == lock = "free"

\* UpdateDownloadSize: read and write under totalDownloadSizeMutex_.  Without
\* a row there is nothing to add to (E_INVAL_ARG).
GetTotalDownloadSize(t) ==
    /\ call[t].at = "add" /\ LockFree
    /\ IF rows > 0
       THEN lock' = t /\ call' = [call EXCEPT ![t].at = "store", ![t].read = size]
       ELSE call' = [call EXCEPT ![t] = Resting] /\ UNCHANGED lock
    /\ UNCHANGED <<stateVars, file, source, restore, imported, hurt, indexed, rows, size, added, ops, faults>>

UpdateTotalDownloadSize(t) ==
    /\ call[t].at = "store" /\ lock' = "free" /\ call' = [call EXCEPT ![t] = Resting]
    /\ size' = call[t].read + call[t].size /\ added' = added + call[t].size
    /\ UNCHANGED <<stateVars, file, source, restore, imported, hurt, indexed, rows, ops, faults>>

Rows ==
    \/ Restart
    \/ \E ok \in BOOLEAN : RdbInit(ok) \/ RdbInitFails(ok) \/ ImportDb(ok) \/ DeleteRdbStore(ok)
    \/ \E t \in Threads :
        \/ Begin(t, "look", 0) \/ \E s \in Sizes : Begin(t, "add", s)
        \/ InsertLook(t) \/ Insert(t) \/ GetTotalDownloadSize(t) \/ UpdateTotalDownloadSize(t) \/ CallFails(t)

Next == ("state" \in Kinds /\ State) \/ ("rows" \in Kinds /\ Rows)

Spec == Init /\ [][Next]_vars

-----------------------------------------------------------------------------
(* What is checked                                                         *)

\* At most one sync of an application runs, and a request that was told to
\* wait, and that no stop or clean-up took back, is never forgotten: a sync
\* runs or a clean-up is under way at whose end the engine is told of it, or
\* the engine has been told.
OneSyncAtATime ==
    /\ running <= 1 /\ (running = 1 <=> state = "syncing")
    /\ pending => running = 1 \/ signals # {} \/ told > 0

\* An application has one row however many threads insert it, and the
\* size of its downloads is the sum of what was added.
OneRowPerApplication == (indexed => rows <= 1) /\ size = added

\* The rows of the earlier database are in the new one before the earlier one
\* goes, whatever failed or died meanwhile, but for an import that failed and
\* a new database that a failure or the death of the service left empty.
ImportKeepsRows == ~source => imported \/ hurt
=============================================================================
