------------------------------ MODULE DbMigration ------------------------------
(***************************************************************************)
(* The one-time move of an application's cloud disk rows from the file     *)
(* manager's database to a database of its own.                            *)
(*   services/clouddisk_database/src/migration_manager.cpp                 *)
(*   services/clouddisk_database/src/clouddisk_rdbstore.cpp (RdbInit)      *)
(*                                                                         *)
(* Data is abstracted to the number of changes an application has made:    *)
(* a database holds the first k of them.  The copies run on a queue of     *)
(* COPY_THREAD_COUNT threads, so one may wait for another.  A marker file   *)
(* that is there can be removed.                                           *)
(***************************************************************************)
EXTENDS Integers, FiniteSets

CONSTANTS
    Bundles,
    Threads,     \* COPY_THREAD_COUNT
    MaxChanges,  \* bound on the changes of an application
    MaxFaults    \* bound on failing copies, timeouts and crashes

VARIABLES
    migrating, migrated,  \* bundles with the marker file
    rdbDir,               \* bundles with a directory rdb of their own
    state,                \* appStates_: "none", "pending" or "completed"
    checked,              \* the marker .migration_checked
    copies,               \* copies[b]: "none", "queued", "running", "copied", "ending", "ended"
    started,              \* StartAsyncMigration has returned: FUSE is served
    opened,               \* opened[b]: "none", "old" or "new"
    old, new,             \* changes in each database
    made,                 \* changes made
    stray,                \* bundles that opened the wrong database: a history
    faults

vars == <<migrating, migrated, rdbDir, state, checked, copies, started, opened, old, new,
          made, stray, faults>>

Init ==
    /\ migrating = {} /\ migrated = {} /\ rdbDir = {} /\ checked = FALSE
    /\ state = [b \in Bundles |-> "none"] /\ copies = [b \in Bundles |-> "none"]
    /\ started = FALSE /\ opened = [b \in Bundles |-> "none"]
    /\ old = [b \in Bundles |-> 1] /\ new = [b \in Bundles |-> 0]
    /\ made = [b \in Bundles |-> 1] /\ stray = {} /\ faults = 0

Fault == faults < MaxFaults /\ faults' = faults + 1

-----------------------------------------------------------------------------
(* Every bundle with rows in the old database and no marker is marked.  A  *)
(* directory that cannot be made leaves its bundle out.                    *)
CreateAppMigratingMarkers(bs) ==
    /\ migrating' = migrating \cup bs
    /\ state' = [b \in Bundles |-> IF b \in bs THEN "pending" ELSE state[b]]

(* DoMigration then queues a copy for every marker, those that an earlier  *)
(* daemon left included; it is not reached when there is nothing to mark   *)
(* or the old database cannot be read.                                     *)
StartAsyncMigration ==
    LET todo == {b \in Bundles : b \notin migrating \cup migrated} IN
    /\ ~started /\ started' = TRUE
    /\ \/ /\ ~checked /\ todo # {}
          /\ \E bs \in SUBSET todo :
                /\ IF bs = todo THEN UNCHANGED faults ELSE Fault
                /\ CreateAppMigratingMarkers(bs)
          /\ copies' = [b \in Bundles |-> IF b \in migrating' THEN "queued" ELSE copies[b]]
          /\ UNCHANGED checked
       \/ /\ checked \/ todo = {}
          /\ checked' = TRUE
          /\ UNCHANGED <<migrating, state, copies, faults>>
       \/ /\ ~checked /\ Fault
          /\ UNCHANGED <<migrating, state, copies, checked>>
    /\ UNCHANGED <<migrated, rdbDir, opened, old, new, made, stray>>

CopyBegins(b) ==
    /\ copies[b] = "queued"
    /\ Cardinality({x \in Bundles : copies[x] = "running"}) < Threads
    /\ copies' = [copies EXCEPT ![b] = "running"]
    /\ rdbDir' = rdbDir \cup {b}
    /\ UNCHANGED <<migrating, migrated, state, checked, started, opened, old, new, made, stray, faults>>

(* copy_file overwrites what is there.                                     *)
CopyDatabase(b) ==
    /\ copies[b] = "running"
    /\ copies' = [copies EXCEPT ![b] = "copied"]
    /\ new' = [new EXCEPT ![b] = old[b]]
    /\ UNCHANGED <<migrating, migrated, rdbDir, state, checked, started, opened, old, made, stray, faults>>

Complete(b) == state' = [state EXCEPT ![b] = IF @ = "none" THEN @ ELSE "completed"]

OnAppMigrationFailed(b) ==
    /\ copies[b] \in {"queued", "running"} /\ Fault
    /\ copies' = [copies EXCEPT ![b] = "none"]
    /\ migrating' = migrating \ {b}
    /\ Complete(b)
    /\ UNCHANGED <<migrated, rdbDir, checked, started, opened, old, new, made, stray>>

(* A marker that is gone means that the application waited too long and    *)
(* has gone back to the old database; it may also go after this look.      *)
LookForMarker(b) ==
    /\ copies[b] = "copied"
    /\ IF b \in migrating
       THEN copies' = [copies EXCEPT ![b] = "ending"] /\ UNCHANGED state
       ELSE copies' = [copies EXCEPT ![b] = "none"] /\ state' = [state EXCEPT ![b] = "none"]
    /\ UNCHANGED <<migrating, migrated, rdbDir, checked, started, opened, old, new, made,
                   stray, faults>>

OnAppMigrationSuccess(b) ==
    /\ copies[b] = "ending"
    /\ copies' = [copies EXCEPT ![b] = "ended"]
    /\ migrating' = migrating \ {b}
    /\ UNCHANGED <<migrated, rdbDir, state, checked, started, opened, old, new, made, stray,
                   faults>>

(* Between the two markers there is none.  The file of the second one may  *)
(* not be written, which nobody looks at.                                  *)
CreateMigratedMarker(b) ==
    /\ copies[b] = "ended"
    /\ copies' = [copies EXCEPT ![b] = "none"]
    /\ \/ migrated' = migrated \cup {b} /\ UNCHANGED faults
       \/ Fault /\ UNCHANGED migrated
    /\ Complete(b)
    /\ UNCHANGED <<migrating, rdbDir, checked, started, opened, old, new, made, stray>>

-----------------------------------------------------------------------------
(* The old database is opened although its copy is about to be marked as   *)
(* the one that counts.                                                    *)
OpensOld(b) ==
    /\ opened' = [opened EXCEPT ![b] = "old"]
    /\ stray' = IF copies[b] \in {"ending", "ended"} THEN stray \cup {b} ELSE stray
    /\ UNCHANGED migrated

(* SelectDbDir, after the wait.  No marker and no rdb directory: this is   *)
(* taken for a bundle that never had rows in the old database, and it      *)
(* starts with an empty one of its own.                                    *)
SelectDbDir(b, m) ==
    IF b \in m THEN OpensOld(b)
    ELSE IF b \in migrated
         THEN opened' = [opened EXCEPT ![b] = "new"] /\ UNCHANGED <<migrated, stray>>
    ELSE IF b \notin rdbDir
         THEN /\ opened' = [opened EXCEPT ![b] = "new"] /\ migrated' = migrated \cup {b}
              /\ stray' = stray \cup {b}
         ELSE OpensOld(b)

NeverWaits(b) == TRUE

(* WaitForAppMigration has nothing to wait for, or was notified.           *)
MigrationOver(b) == b \notin migrating \/ state[b] = "completed"

(* RdbInit: the bundle's store is opened, when FUSE first needs it.        *)
RdbInit(b) ==
    /\ started /\ opened[b] = "none" /\ MigrationOver(b)
    /\ SelectDbDir(b, migrating)
    /\ UNCHANGED <<migrating, rdbDir, state, checked, copies, started, old, new, made, faults>>

(* The wait ends after TIMEOUT_SECONDS, or finds a marker that a daemon    *)
(* which is gone has left: the marker is removed.                          *)
RdbInitWithoutMigration(b) ==
    /\ started /\ opened[b] = "none" /\ b \in migrating /\ state[b] # "completed"
    /\ Fault
    /\ migrating' = migrating \ {b}
    /\ SelectDbDir(b, migrating')
    /\ UNCHANGED <<rdbDir, state, checked, copies, started, old, new, made>>

Change(b) ==
    /\ opened[b] # "none" /\ made[b] < MaxChanges
    /\ made' = [made EXCEPT ![b] = @ + 1]
    /\ IF opened[b] = "old"
       THEN old' = [old EXCEPT ![b] = IF @ = made[b] THEN @ + 1 ELSE @] /\ UNCHANGED new
       ELSE new' = [new EXCEPT ![b] = IF @ = made[b] THEN @ + 1 ELSE @] /\ UNCHANGED old
    /\ UNCHANGED <<migrating, migrated, rdbDir, state, checked, copies, started, opened, stray,
                   faults>>

Restart ==
    /\ started /\ started' = FALSE
    /\ IF \E b \in Bundles : copies[b] # "none" THEN Fault ELSE UNCHANGED faults
    /\ state' = [b \in Bundles |-> "none"] /\ copies' = [b \in Bundles |-> "none"]
    /\ opened' = [b \in Bundles |-> "none"]
    /\ UNCHANGED <<migrating, migrated, rdbDir, checked, old, new, made, stray>>

Next ==
    \/ StartAsyncMigration \/ Restart
    \/ \E b \in Bundles :
          \/ CopyBegins(b) \/ CopyDatabase(b) \/ OnAppMigrationFailed(b) \/ LookForMarker(b)
          \/ OnAppMigrationSuccess(b) \/ CreateMigratedMarker(b) \/ RdbInit(b) \/ RdbInitWithoutMigration(b) \/ Change(b)

Spec == Init /\ [][Next]_vars

-----------------------------------------------------------------------------
Current(b) == IF opened[b] = "old" THEN old[b] ELSE new[b]

(* The database that an application opens holds every change it has made,  *)
(* although copies fail, waits time out and the daemon dies at any step.   *)
(* Excepted is an application that opened a database of its own before its *)
(* rows were copied there, or the old one after its copy was looked at and *)
(* before .migrated was there: RdbInit finds neither marker between the    *)
(* two steps of OnAppMigrationSuccess.                                     *)
NoChangeIsLost ==
    \A b \in Bundles : opened[b] # "none" /\ b \notin stray => Current(b) = made[b]
=============================================================================
