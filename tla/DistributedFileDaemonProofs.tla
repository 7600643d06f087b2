--------------------- MODULE DistributedFileDaemonProofs ---------------------
(***************************************************************************)
(* Two parts of the distributed file daemon, which share no state: the     *)
(* connection to another device and the control channels.                  *)
(***************************************************************************)
EXTENDS P2PConnection, TLAPS

(***************************************************************************)
(* The connection, for any applications and any bounds: the mounts of the  *)
(* documents are recorded, and the sessions can be released.               *)
(***************************************************************************)
(***************************************************************************)
(* The inductive invariant.                                                *)
(***************************************************************************)
Places == {"idle", "count", "status", "recheck", "cleanup", "offline", "mount", "mounting",
           "mounted", "unmount", "storage", "forget", "closed", "removed", "post", "online", "stop"}

ThreadsOK == pc \in [Threads -> [at : Places, app : Apps \cup {"none"}, clear : BOOLEAN]]
DocsOK ==
  /\ docs \in [present : BOOLEAN, of : [Apps -> Nat]]
  /\ mounted \in BOOLEAN /\ overlap \in BOOLEAN
LinkOK ==
  /\ record \in {"none", "current", "old"} /\ agent \in {"running", "stopping", "gone"}
  /\ queue \in Seq(Commands)
  /\ pool \subseteq [fd : 1..MaxFds, server : BOOLEAN] /\ kernel \subseteq 1..MaxFds
  /\ fds \in 0..MaxFds

(* A thread that unmounts found a mount, and until there have been two     *)
(* unmounts at once it is the only one; a mount under way found none.      *)
Unmounting(t) == pc[t].at \in {"storage", "forget"}
MountInv ==
  /\ pc["ipc"].at \in {"mounting", "mounted"} => ~docs.present
  /\ \/ overlap
     \/ /\ \A t, u \in Threads : Unmounting(t) /\ Unmounting(u) => t = u
        /\ \A t \in Threads : Unmounting(t) => docs.present
        /\ \A t \in Threads : At(t, "forget") => ~mounted
        /\ At("ipc", "mounted") => mounted
        /\ mounted => docs.present \/ At("ipc", "mounted")
        /\ docs.present => mounted \/ \E t \in Threads : At(t, "forget")

(* The record does not name an agent that is gone, which has neither       *)
(* commands nor sessions; the last command of one that is being stopped,   *)
(* and only of such a one, stops it.                                       *)
AgentInv ==
  /\ agent = "gone" => record # "current"
  /\ agent = "gone" => pool = {} /\ queue = <<>>
  /\ agent = "stopping" => queue # <<>> /\ queue[Len(queue)].do = "stop"
  /\ agent = "running" => \A i \in 1..Len(queue) : queue[i].do # "stop"

(***************************************************************************)
(* Types.                                                                  *)
(***************************************************************************)
LEMMA ThreadFacts ==
  /\ "ipc" \in Threads /\ "change" \in Threads /\ "remote" \in Threads
  /\ "dm" \in Threads /\ "death" \in Threads /\ "quit" \in Threads /\ "actor" \in Threads
BY DEF Threads

LEMMA PlaceFacts ==
  /\ "idle" \in Places /\ "count" \in Places /\ "status" \in Places /\ "recheck" \in Places
  /\ "cleanup" \in Places /\ "offline" \in Places /\ "mount" \in Places
  /\ "mounting" \in Places /\ "mounted" \in Places /\ "unmount" \in Places
  /\ "storage" \in Places /\ "forget" \in Places /\ "closed" \in Places
  /\ "removed" \in Places /\ "post" \in Places /\ "online" \in Places /\ "stop" \in Places
BY DEF Places

(* How a step moves a thread, and what After leads to.                     *)
LEMMA GotoOK ==
  ASSUME ThreadsOK, NEW t \in Threads, NEW where \in Places, Goto(t, where)
  PROVE  /\ ThreadsOK'
         /\ pc'[t].at = where /\ pc'[t].app = pc[t].app /\ pc'[t].clear = pc[t].clear
         /\ \A u \in Threads \ {t} : pc'[u] = pc[u]
BY DEF ThreadsOK, Goto

LEMMA ReturnOK ==
  ASSUME ThreadsOK, NEW t \in Threads, Return(t)
  PROVE  ThreadsOK' /\ pc'[t].at = "idle" /\ \A u \in Threads \ {t} : pc'[u] = pc[u]
BY PlaceFacts DEF ThreadsOK, Return, Idle

LEMMA EnterOK ==
  ASSUME ThreadsOK, NEW t \in Threads, NEW where \in Places, NEW a \in Apps \cup {"none"},
         NEW c \in BOOLEAN, Enter(t, where, a, c)
  PROVE  ThreadsOK' /\ pc'[t].at = where /\ \A u \in Threads \ {t} : pc'[u] = pc[u]
BY DEF ThreadsOK, Enter

LEMMA AfterOK ==
  ASSUME NEW t \in {"ipc", "remote", "dm", "actor"}
  PROVE  After(t) \in {"closed", "removed", "post", "idle"}
BY DEF After

LEMMA AppendFacts ==
  ASSUME NEW S, NEW q \in Seq(S), NEW e \in S
  PROVE  /\ Append(q, e) \in Seq(S) /\ Len(Append(q, e)) = Len(q) + 1
         /\ \A i \in 1..Len(q) : Append(q, e)[i] = q[i]
         /\ Append(q, e)[Len(q) + 1] = e
OBVIOUS

LEMMA TailFacts ==
  ASSUME NEW S, NEW q \in Seq(S), q # <<>>
  PROVE  /\ Tail(q) \in Seq(S) /\ Len(Tail(q)) = Len(q) - 1 /\ Len(q) \in Nat /\ Len(q) > 0
         /\ \A i \in 1..(Len(q) - 1) : Tail(q)[i] = q[i + 1]
         /\ Head(q) = q[1] /\ Head(q) \in S
OBVIOUS

(***************************************************************************)
(* The threads.  BusyKept: a step that has no part in a mount or unmount.  *)
(***************************************************************************)
Busy == {"mounting", "mounted", "storage", "forget"}
BusyKept ==
  \A t \in Threads : pc[t].at \in Busy \/ pc'[t].at \in Busy => pc'[t].at = pc[t].at

LEMMA MoveAside ==
  ASSUME NEW t \in Threads, \A u \in Threads \ {t} : pc'[u] = pc[u],
         pc[t].at \notin Busy, pc'[t].at \notin Busy
  PROVE  BusyKept
BY ThreadFacts, Zenon DEF BusyKept

LEMMA GotoAside ==
  ASSUME ThreadsOK, NEW t \in Threads, NEW where \in Places, Goto(t, where),
         pc[t].at \notin Busy, where \notin Busy
  PROVE  ThreadsOK' /\ BusyKept
<1>1. /\ ThreadsOK' /\ pc'[t].at = where
      /\ \A u \in Threads \ {t} : pc'[u] = pc[u]
  BY GotoOK, Zenon
<1> QED
  BY <1>1, MoveAside, Zenon

LEMMA ReturnAside ==
  ASSUME ThreadsOK, NEW t \in Threads, Return(t), pc[t].at \notin Busy
  PROVE  ThreadsOK' /\ BusyKept
<1>1. ThreadsOK' /\ pc'[t].at = "idle" /\ \A u \in Threads \ {t} : pc'[u] = pc[u]
  BY ReturnOK, Zenon
<1>2. "idle" \notin Busy
  BY DEF Busy
<1> QED
  BY <1>1, <1>2, MoveAside, Zenon

LEMMA EnterAside ==
  ASSUME ThreadsOK, NEW t \in Threads, NEW where \in Places, NEW a \in Apps \cup {"none"},
         NEW c \in BOOLEAN, Enter(t, where, a, c),
         pc[t].at \notin Busy, where \notin Busy
  PROVE  ThreadsOK' /\ BusyKept
<1>1. ThreadsOK' /\ pc'[t].at = where /\ \A u \in Threads \ {t} : pc'[u] = pc[u]
  BY EnterOK
<1> QED
  BY <1>1, MoveAside, Zenon

(* The steps of calls and events that neither mount nor unmount.           *)
LEMMA Asides ==
  ASSUME ThreadsOK,
         \/ \E a \in Apps : DisconnectDfs(a) \/ CloseP2PConnectionEx(a) \/ OnRemoteDied(a)
         \/ NotAllowed \/ NotConnected \/ Closed \/ UpdateDfsSwitchStatus
         \/ DisconnectByRemote \/ DisconnectedByRemote \/ OnDeviceOffline \/ OfflinePosted
         \/ \E t \in {"ipc", "change", "remote", "death"} : CleanUp(t) \/ OnDeviceP2POffline(t)
         \/ OnDeviceP2POnline \/ OfflineAllDevice \/ QuitGroup \/ GetSession
         \/ UNCHANGED pc
  PROVE  ThreadsOK' /\ BusyKept
<1>0. /\ {"closed", "unmount", "cleanup", "offline"} \cap Busy = {}
      /\ {"idle", "count", "status", "recheck", "closed", "cleanup", "removed", "post", "offline",
          "online", "stop"} \cap Busy = {}
  BY DEF Busy
<1>1. ASSUME NEW a \in Apps, DisconnectDfs(a) \/ CloseP2PConnectionEx(a) \/ OnRemoteDied(a)
      PROVE  ThreadsOK' /\ BusyKept
  <2>1. \/ At("ipc", "idle") /\ Enter("ipc", "closed", a, FALSE)
        \/ At("ipc", "idle") /\ Enter("ipc", "unmount", a, FALSE)
        \/ At("death", "idle") /\ Enter("death", "cleanup", a, FALSE)
    BY <1>1, Zenon DEF DisconnectDfs, CloseP2PConnectionEx, OnRemoteDied
  <2>2. CASE At("ipc", "idle") /\ Enter("ipc", "closed", a, FALSE)
    BY <1>0, <2>2, EnterAside, ThreadFacts, PlaceFacts, Zenon DEF At
  <2>3. CASE At("ipc", "idle") /\ Enter("ipc", "unmount", a, FALSE)
    BY <1>0, <2>3, EnterAside, ThreadFacts, PlaceFacts, Zenon DEF At
  <2>4. CASE At("death", "idle") /\ Enter("death", "cleanup", a, FALSE)
    BY <1>0, <2>4, EnterAside, ThreadFacts, PlaceFacts, Zenon DEF At
  <2> QED
    BY <2>1, <2>2, <2>3, <2>4, Zenon
<1>2. CASE NotAllowed \/ NotConnected \/ Closed
  BY <1>0, <1>2, GotoAside, ThreadFacts, PlaceFacts DEF NotAllowed, NotConnected, Closed, At
<1>3. CASE UpdateDfsSwitchStatus \/ DisconnectByRemote \/ OnDeviceOffline
  BY <1>0, <1>3, EnterAside, ThreadFacts, PlaceFacts, Zenon DEF UpdateDfsSwitchStatus,
     DisconnectByRemote, OnDeviceOffline, At, Unlocked
<1>4. CASE DisconnectedByRemote
  BY <1>0, <1>4, GotoAside, ThreadFacts, PlaceFacts DEF DisconnectedByRemote, At
<1>5. CASE OfflinePosted
  BY <1>0, <1>5, ReturnAside, ThreadFacts DEF OfflinePosted, At
<1>6. ASSUME NEW t \in {"ipc", "change", "remote", "death"}, CleanUp(t)
      PROVE  ThreadsOK' /\ BusyKept
  BY <1>0, <1>6, ReturnAside, GotoAside, ThreadFacts, PlaceFacts DEF CleanUp, At
<1>7. ASSUME NEW t \in {"ipc", "change", "remote", "death"}, OnDeviceP2POffline(t)
      PROVE  ThreadsOK' /\ BusyKept
  BY <1>0, <1>7, ReturnAside, ThreadFacts DEF OnDeviceP2POffline, At
<1>8. CASE UNCHANGED pc
  BY <1>8 DEF ThreadsOK, BusyKept
<1>9. CASE GetSession
  <2>1. UNCHANGED pc \/ (At("actor", "idle") /\ Enter("actor", "unmount", "none", TRUE))
    BY <1>9, Zenon DEF GetSession, Take, IsNext
  <2> QED
    BY <1>0, <1>8, <2>1, EnterAside, ThreadFacts, PlaceFacts, Zenon DEF At
<1>10. CASE OnDeviceP2POnline
  <2>1. At("ipc", "online") /\ (Goto("ipc", "cleanup") \/ Goto("ipc", "status"))
    BY <1>10, Zenon DEF OnDeviceP2POnline
  <2> QED
    BY <1>0, <2>1, GotoAside, ThreadFacts, PlaceFacts, Zenon DEF At
<1>11. CASE OfflineAllDevice
  BY <1>0, <1>11, EnterAside, ThreadFacts, PlaceFacts, Zenon DEF OfflineAllDevice, At
<1>12. CASE QuitGroup
  BY <1>0, <1>12, ReturnAside, ThreadFacts DEF QuitGroup, At
<1> QED
  BY <1>1, <1>2, <1>3, <1>4, <1>5, <1>6, <1>7, <1>8, <1>9, <1>10, <1>11, <1>12, Zenon

(* The steps that start a connection.                                      *)
LEMMA Starts ==
  ASSUME ThreadsOK,
         \/ \E a \in Apps, dfs \in BOOLEAN : Connect(a, dfs)
         \/ ConnectionCount \/ Connected
  PROVE  ThreadsOK' /\ BusyKept
<1>0. /\ "idle" \notin Busy /\ "count" \notin Busy /\ "online" \notin Busy
      /\ "status" \notin Busy
      /\ "recheck" \notin Busy /\ "cleanup" \notin Busy /\ "mount" \notin Busy
  BY DEF Busy
<1>1. ASSUME NEW a \in Apps, NEW dfs \in BOOLEAN, Connect(a, dfs) PROVE ThreadsOK' /\ BusyKept
  <2>1. /\ At("ipc", "idle") /\ ThreadsOK' /\ pc'["ipc"].at = "count"
        /\ \A u \in Threads \ {"ipc"} : pc'[u] = pc[u]
    BY <1>1, EnterOK, ThreadFacts, PlaceFacts DEF Connect
  <2> QED
    BY <1>0, <2>1, Zenon DEF At, BusyKept
<1>2. CASE ConnectionCount
  <2>1. /\ At("ipc", "count")
        /\ Goto("ipc", "recheck") \/ Goto("ipc", "online") \/ Goto("ipc", "cleanup")
    BY <1>2, Zenon DEF ConnectionCount, QueryRelatedGroups
  <2>2. /\ ThreadsOK' /\ pc'["ipc"].at \in {"recheck", "online", "cleanup"}
        /\ \A u \in Threads \ {"ipc"} : pc'[u] = pc[u]
    BY <2>1, GotoOK, ThreadFacts, PlaceFacts
  <2> QED
    BY <1>0, <2>1, <2>2, Zenon DEF At, BusyKept
<1>3. CASE Connected
  <2>1. /\ pc["ipc"].at \in {"status", "recheck"}
        /\ Goto("ipc", "mount") \/ Return("ipc")
    BY <1>3, Zenon DEF Connected
  <2>2. /\ ThreadsOK' /\ pc'["ipc"].at \in {"mount", "idle"}
        /\ \A u \in Threads \ {"ipc"} : pc'[u] = pc[u]
    BY <2>1, GotoOK, ReturnOK, ThreadFacts, PlaceFacts
  <2> QED
    BY <1>0, <2>1, <2>2, Zenon DEF BusyKept
<1> QED
  BY <1>1, <1>2, <1>3, Zenon

(* The steps of a mount or an unmount: thread t moves, the others stay.    *)
Moves(t, from, to) ==
  /\ ThreadsOK' /\ pc[t].at \in from /\ pc'[t].at \in to
  /\ \A u \in Threads \ {t} : pc'[u] = pc[u]

LEMMA GotoMoves ==
  ASSUME ThreadsOK, NEW t \in Threads, NEW from, At(t, from), NEW to \in Places, Goto(t, to)
  PROVE  Moves(t, {from}, {to})
BY GotoOK, Zenon DEF Moves, At

LEMMA MountMoves ==
  ASSUME ThreadsOK
  PROVE  /\ MountDfsDocs =>
              Moves("ipc", {"mount"}, IF docs.present THEN {"idle"} ELSE {"mounting"})
         /\ MountAtStorage => Moves("ipc", {"mounting"}, {"mounted"})
         /\ MountCounted => Moves("ipc", {"mounted"}, {"idle"})
         /\ MountFails => Moves("ipc", {"mounting"}, {"cleanup"})
<1>1. MountDfsDocs => Moves("ipc", {"mount"}, IF docs.present THEN {"idle"} ELSE {"mounting"})
  BY GotoOK, ReturnOK, ThreadFacts, PlaceFacts DEF MountDfsDocs, At, Moves
<1>2. MountAtStorage => Moves("ipc", {"mounting"}, {"mounted"})
  BY GotoMoves, ThreadFacts, PlaceFacts, Zenon DEF MountAtStorage
<1>3. MountCounted => Moves("ipc", {"mounted"}, {"idle"})
  BY ReturnOK, ThreadFacts, Zenon DEF MountCounted, At, Moves
<1>4. MountFails => Moves("ipc", {"mounting"}, {"cleanup"})
  BY GotoMoves, ThreadFacts, PlaceFacts, Zenon DEF MountFails
<1> QED
  BY <1>1, <1>2, <1>3, <1>4, Zenon

Done == {"closed", "removed", "post", "idle"}

LEMMA UnmountMoves ==
  ASSUME ThreadsOK, NEW t \in {"ipc", "remote", "dm", "actor"}
  PROVE  /\ UMountDfsCountOnly(t) => Moves(t, {"unmount"}, {"storage"} \cup Done)
         /\ UMountDfsCountOnly(t) /\ pc'[t].at = "storage" => docs.present /\ docs'.present
         /\ UMountAtStorage(t) => Moves(t, {"storage"}, {"forget"})
         /\ RemoveMountDfsCount(t) => Moves(t, {"forget"}, Done)
         /\ UMountFails(t) => Moves(t, {"storage"}, Done)
<1>0. t \in Threads /\ After(t) \in Done /\ After(t) \in Places
  BY AfterOK, ThreadFacts, PlaceFacts, Zenon DEF Done
<1>1. ASSUME UMountDfsCountOnly(t)
      PROVE  /\ Moves(t, {"unmount"}, {"storage"} \cup Done)
             /\ pc'[t].at = "storage" => docs.present /\ docs'.present
  <2> DEFINE only == ~docs.present \/ (~pc[t].clear /\ docs.of[pc[t].app] > 1)
  <2>1. At(t, "unmount") /\ Goto(t, IF only THEN After(t) ELSE "storage")
    BY <1>1, Zenon DEF UMountDfsCountOnly
  <2>2. CASE only
    BY <1>0, <2>1, <2>2, GotoOK, Zenon DEF At, Moves, Done
  <2>3. CASE ~only
    <3>1. Moves(t, {"unmount"}, {"storage"} \cup Done)
      BY <1>0, <2>1, <2>3, GotoOK, PlaceFacts, Zenon DEF At, Moves
    <3>2. docs.present /\ docs'.present
      BY <1>1, <2>3 DEF UMountDfsCountOnly
    <3> QED
      BY <3>1, <3>2, Zenon
  <2> QED
    BY <2>2, <2>3, Zenon
<1>2. UMountAtStorage(t) => Moves(t, {"storage"}, {"forget"})
  BY <1>0, GotoMoves, PlaceFacts, Zenon DEF UMountAtStorage
<1>3. RemoveMountDfsCount(t) => Moves(t, {"forget"}, Done)
  BY <1>0, GotoOK, Zenon DEF RemoveMountDfsCount, At, Moves
<1>4. UMountFails(t) => Moves(t, {"storage"}, Done)
  BY <1>0, GotoOK, ReturnOK, Zenon DEF UMountFails, At, Moves, Done
<1> QED
  BY <1>1, <1>2, <1>3, <1>4, Zenon

(***************************************************************************)
(* The mounts.                                                             *)
(***************************************************************************)
LEMMA MountStays ==
  ASSUME MountInv, UNCHANGED <<docs, mounted, overlap>>, BusyKept
  PROVE  MountInv'
<1>1. \A t \in Threads : /\ Unmounting(t)' <=> Unmounting(t)
                         /\ At(t, "forget")' <=> At(t, "forget")
  BY DEF BusyKept, Busy, Unmounting, At
<1>2. /\ At("ipc", "mounted")' <=> At("ipc", "mounted")
      /\ pc'["ipc"].at \in {"mounting", "mounted"} => pc["ipc"].at \in {"mounting", "mounted"}
  BY ThreadFacts DEF BusyKept, Busy, At
<1> QED
  BY <1>1, <1>2, Zenon DEF MountInv

(* Counting one more or one less.                                          *)
LEMMA CountFacts ==
  ASSUME NEW f \in [Apps -> Nat], NEW a
  PROVE  /\ [f EXCEPT ![a] = @ + 1] \in [Apps -> Nat]
         /\ \A x \in Apps : [f EXCEPT ![a] = @ + 1][x] <= f[x] + 1
         /\ f[a] > 1 => /\ [f EXCEPT ![a] = @ - 1] \in [Apps -> Nat]
                        /\ \A x \in Apps : [f EXCEPT ![a] = @ - 1][x] <= f[x]
<1>1. CASE a \in Apps
  BY <1>1
<1>2. CASE a \notin Apps
  <2>1. \A v : [f EXCEPT ![a] = v] \in [Apps -> Nat] /\
          \A x \in Apps : [f EXCEPT ![a] = v][x] = f[x]
    BY <1>2, Zenon
  <2>2. \A x \in Apps : f[x] \in Nat /\ f[x] <= f[x] /\ f[x] <= f[x] + 1
    OBVIOUS
  <2> QED
    BY <2>1, <2>2, Zenon
<1> QED
  BY <1>1, <1>2, Zenon

LEMMA IncreaseOK ==
  ASSUME DocsOK, NEW a
  PROVE  /\ IncreaseMountDfsCount(a) \in [present : BOOLEAN, of : [Apps -> Nat]]
         /\ IncreaseMountDfsCount(a).present
         /\ \A x \in Apps : IncreaseMountDfsCount(a).of[x] <= docs.of[x] + 1
<1>1. docs.of \in [Apps -> Nat]
  BY DEF DocsOK
<1>2. PICK f \in [Apps -> Nat] : f = docs.of
  BY <1>1, Zenon
<1>3. [f EXCEPT ![a] = @ + 1] \in [Apps -> Nat] /\
        \A x \in Apps : [f EXCEPT ![a] = @ + 1][x] <= f[x] + 1
  BY CountFacts, Zenon
<1>4. IncreaseMountDfsCount(a) = [present |-> TRUE, of |-> [f EXCEPT ![a] = @ + 1]]
  BY <1>2, Zenon DEF IncreaseMountDfsCount
<1> QED
  BY <1>2, <1>3, <1>4

(* Deciding on an unmount.                                                 *)
LEMMA DecideOK ==
  ASSUME DocsOK, NEW t, UMountDfsCountOnly(t)
  PROVE  /\ docs' \in [present : BOOLEAN, of : [Apps -> Nat]] /\ docs'.present = docs.present
         /\ \A x \in Apps : docs'.of[x] <= docs.of[x]
<1> DEFINE a == pc[t].app
           none == [x \in Apps |-> 0]
<1>0. docs \in [present : BOOLEAN, of : [Apps -> Nat]]
  BY DEF DocsOK
<1>1. PICK f \in [Apps -> Nat] : f = docs.of
  BY <1>0
<1>2. \/ docs' = docs
      \/ docs' = [docs EXCEPT !.of = none]
      \/ docs' = [docs EXCEPT !.of = [f EXCEPT ![a] = @ - 1]] /\ f[a] > 1
  BY <1>1 DEF UMountDfsCountOnly
<1>3. none \in [Apps -> Nat] /\ \A x \in Apps : none[x] <= f[x]
  OBVIOUS
<1>4. f[a] > 1 => [f EXCEPT ![a] = @ - 1] \in [Apps -> Nat] /\
        \A x \in Apps : [f EXCEPT ![a] = @ - 1][x] <= f[x]
  BY CountFacts, Zenon
<1>5. ASSUME NEW g \in [Apps -> Nat], docs' = [docs EXCEPT !.of = g], \A x \in Apps : g[x] <= f[x]
      PROVE  /\ docs' \in [present : BOOLEAN, of : [Apps -> Nat]] /\ docs'.present = docs.present
             /\ \A x \in Apps : docs'.of[x] <= docs.of[x]
  BY <1>0, <1>1, <1>5
<1>6. CASE docs' = docs
  BY <1>0, <1>1, <1>6
<1> QED
  BY <1>2, <1>3, <1>4, <1>5, <1>6, Zenon

(* A step of a mount: the ipc thread unmounts nothing.                     *)
LEMMA MountStep ==
  ASSUME DocsOK, ThreadsOK, MountInv, MountDfsDocs \/ MountAtStorage \/ MountCounted \/ MountFails
  PROVE  DocsOK' /\ MountInv'
<1>1. CASE MountDfsDocs
  <2>1. Moves("ipc", {"mount"}, IF docs.present THEN {"idle"} ELSE {"mounting"})
    BY <1>1, MountMoves, Zenon
  <2>2. /\ docs'.present = docs.present /\ UNCHANGED <<mounted, overlap>> /\ DocsOK'
    BY <1>1, IncreaseOK DEF MountDfsDocs, DocsOK
  <2>3. \A t \in Threads : /\ Unmounting(t)' <=> Unmounting(t)
                           /\ At(t, "forget")' <=> At(t, "forget")
    BY <2>1 DEF Moves, Unmounting, At
  <2>4. ~At("ipc", "mounted") /\ ~At("ipc", "mounted")'
    BY <2>1 DEF Moves, At
  <2>5. pc'["ipc"].at \in {"mounting", "mounted"} => ~docs'.present
    BY <2>1, <2>2 DEF Moves
  <2> QED
    BY <2>2, <2>3, <2>4, <2>5, Zenon DEF MountInv
<1>2. CASE MountAtStorage
  <2>1. Moves("ipc", {"mounting"}, {"mounted"})
    BY <1>2, MountMoves, Zenon
  <2>2. ~docs.present /\ mounted' = TRUE /\ UNCHANGED <<docs, overlap>> /\ DocsOK'
    BY <1>2, <2>1 DEF MountAtStorage, MountInv, Moves, DocsOK
  <2>3. \A t \in Threads : /\ Unmounting(t)' <=> Unmounting(t)
                           /\ At(t, "forget")' <=> At(t, "forget")
                           /\ At(t, "forget") => Unmounting(t)
    BY <2>1 DEF Moves, Unmounting, At
  <2>4. At("ipc", "mounted")'
    BY <2>1 DEF Moves, At
  <2> QED
    BY <2>2, <2>3, <2>4, Zenon DEF MountInv
<1>3. CASE MountCounted
  <2>1. Moves("ipc", {"mounted"}, {"idle"})
    BY <1>3, MountMoves, Zenon
  <2>2. ~docs.present /\ docs'.present /\ UNCHANGED <<mounted, overlap>> /\ DocsOK'
    BY <1>3, <2>1, IncreaseOK DEF MountCounted, MountInv, Moves, DocsOK
  <2>3. \A t \in Threads : /\ Unmounting(t)' <=> Unmounting(t)
                           /\ At(t, "forget")' <=> At(t, "forget")
    BY <2>1 DEF Moves, Unmounting, At
  <2>4. At("ipc", "mounted") /\ pc'["ipc"].at \notin {"mounting", "mounted"}
    BY <2>1 DEF Moves, At
  <2>5. ~At("ipc", "mounted")'
    BY <2>4 DEF At
  <2> QED
    BY <2>2, <2>3, <2>4, <2>5, Zenon DEF MountInv
<1>4. CASE MountFails
  <2>1. Moves("ipc", {"mounting"}, {"cleanup"})
    BY <1>4, MountMoves, Zenon
  <2>2. UNCHANGED <<docs, mounted, overlap>> /\ DocsOK'
    BY <1>4 DEF MountFails, DocsOK
  <2>3. \A t \in Threads : /\ Unmounting(t)' <=> Unmounting(t)
                           /\ At(t, "forget")' <=> At(t, "forget")
    BY <2>1 DEF Moves, Unmounting, At
  <2>4. ~At("ipc", "mounted") /\ pc'["ipc"].at \notin {"mounting", "mounted"}
    BY <2>1 DEF Moves, At
  <2>5. ~At("ipc", "mounted")'
    BY <2>4 DEF At
  <2> QED
    BY <2>2, <2>3, <2>4, <2>5, Zenon DEF MountInv
<1> QED
  BY <1>1, <1>2, <1>3, <1>4, Zenon

(* A step of an unmount by thread t, which mounts nothing.                 *)
LEMMA UnmountStep ==
  ASSUME DocsOK, ThreadsOK, MountInv, NEW t \in {"ipc", "remote", "dm", "actor"},
         UMountDfsCountOnly(t) \/ UMountAtStorage(t) \/ RemoveMountDfsCount(t) \/ UMountFails(t)
  PROVE  DocsOK' /\ MountInv'
<1>0. t \in Threads
  BY ThreadFacts, Zenon
<1>1. CASE UMountDfsCountOnly(t)
  <2>1. /\ Moves(t, {"unmount"}, {"storage"} \cup Done)
        /\ pc'[t].at = "storage" => docs.present
    BY <1>1, UnmountMoves, Zenon
  <2>2. docs'.present = docs.present /\ UNCHANGED mounted /\ DocsOK'
    <3>1. UNCHANGED mounted /\ overlap' \in BOOLEAN
      BY <1>1, Zenon DEF UMountDfsCountOnly
    <3> QED
      BY <1>1, <3>1, DecideOK, Zenon DEF DocsOK
  <2>3. overlap' = (overlap \/ \E x \in Threads \ {t} : Unmounting(x))
    BY <1>1, Zenon DEF UMountDfsCountOnly, Unmounting
  <2>4. \A u \in Threads : /\ u # t => (Unmounting(u)' <=> Unmounting(u))
                           /\ At(u, "forget")' <=> At(u, "forget")
    BY <2>1 DEF Moves, Unmounting, At, Done
  <2>5. Unmounting(t)' => docs.present
    BY <2>1 DEF Moves, Unmounting, Done
  <2>6. /\ At("ipc", "mounted")' <=> At("ipc", "mounted")
        /\ pc'["ipc"].at \in {"mounting", "mounted"} => pc["ipc"].at \in {"mounting", "mounted"}
    BY <2>1, ThreadFacts DEF Moves, At, Done
  <2> QED
    BY <2>2, <2>3, <2>4, <2>5, <2>6, Zenon DEF MountInv
<1>2. CASE UMountAtStorage(t)
  <2>1. Moves(t, {"storage"}, {"forget"})
    BY <1>2, UnmountMoves, Zenon
  <2>2. mounted' = FALSE /\ UNCHANGED <<docs, overlap>> /\ DocsOK'
    BY <1>2, Zenon DEF UMountAtStorage, DocsOK
  <2>3. \A u \in Threads : Unmounting(u)' <=> Unmounting(u)
    BY <2>1 DEF Moves, Unmounting
  <2>4. Unmounting(t) /\ At(t, "forget")'
    BY <2>1 DEF Moves, Unmounting, At
  <2>5. /\ At("ipc", "mounted")' => At("ipc", "mounted")
        /\ pc'["ipc"].at \in {"mounting", "mounted"} => pc["ipc"].at \in {"mounting", "mounted"}
        /\ At("ipc", "mounted") => pc["ipc"].at \in {"mounting", "mounted"}
    BY <2>1, ThreadFacts DEF Moves, At
  <2> QED
    BY <1>0, <2>2, <2>3, <2>4, <2>5, Zenon DEF MountInv
<1>3. CASE RemoveMountDfsCount(t)
  <2>1. Moves(t, {"forget"}, Done)
    BY <1>3, UnmountMoves, Zenon
  <2>2. docs' = NoDocs /\ ~docs'.present /\ UNCHANGED <<mounted, overlap>> /\ DocsOK'
    BY <1>3 DEF RemoveMountDfsCount, NoDocs, DocsOK
  <2>3. \A u \in Threads : Unmounting(u)' <=> u # t /\ Unmounting(u)
    BY <2>1 DEF Moves, Unmounting, Done
  <2>4. Unmounting(t) /\ At(t, "forget")
    BY <2>1 DEF Moves, Unmounting, At
  <2>5. \A u \in Threads : At(u, "forget")' => Unmounting(u)'
    BY DEF Unmounting, At
  <2>6. /\ At("ipc", "mounted")' => At("ipc", "mounted")
        /\ At("ipc", "mounted") => pc["ipc"].at \in {"mounting", "mounted"}
    BY <2>1, ThreadFacts DEF Moves, At, Done
  <2> QED
    BY <1>0, <2>2, <2>3, <2>4, <2>5, <2>6, Zenon DEF MountInv
<1>4. CASE UMountFails(t)
  <2>1. Moves(t, {"storage"}, Done)
    BY <1>4, UnmountMoves, Zenon
  <2>2. UNCHANGED <<docs, mounted, overlap>> /\ DocsOK'
    BY <1>4 DEF UMountFails, counts, DocsOK
  <2>3. \A u \in Threads : /\ Unmounting(u)' => Unmounting(u)
                           /\ At(u, "forget")' <=> At(u, "forget")
    BY <2>1 DEF Moves, Unmounting, At, Done
  <2>4. /\ At("ipc", "mounted")' <=> At("ipc", "mounted")
        /\ pc'["ipc"].at \in {"mounting", "mounted"} => pc["ipc"].at \in {"mounting", "mounted"}
    BY <2>1, ThreadFacts DEF Moves, At, Done
  <2> QED
    BY <2>2, <2>3, <2>4, Zenon DEF MountInv
<1> QED
  BY <1>1, <1>2, <1>3, <1>4, Zenon

(* Every step keeps the types of the threads and mounts, and MountInv.     *)
LEMMA MountKept ==
  ASSUME DocsOK, ThreadsOK, MountInv, [Next]_vars
  PROVE  DocsOK' /\ ThreadsOK' /\ MountInv'
<1>1. ASSUME ThreadsOK', BusyKept, UNCHANGED <<docs, mounted, overlap>>
      PROVE  DocsOK' /\ ThreadsOK' /\ MountInv'
  <2>1. DocsOK'
    BY <1>1, Zenon DEF DocsOK
  <2> QED
    BY <1>1, <2>1, MountStays, Zenon
<1>2. CASE \/ \E a \in Apps : DisconnectDfs(a) \/ CloseP2PConnectionEx(a) \/ OnRemoteDied(a)
           \/ NotAllowed \/ NotConnected \/ Closed \/ UpdateDfsSwitchStatus
           \/ DisconnectByRemote \/ DisconnectedByRemote \/ OnDeviceOffline \/ OfflinePosted
           \/ \E t \in {"ipc", "change", "remote", "death"} : CleanUp(t) \/ OnDeviceP2POffline(t)
           \/ OnDeviceP2POnline \/ OfflineAllDevice \/ QuitGroup \/ GetSession
  <2>1. UNCHANGED <<docs, mounted, overlap>>
    BY <1>2, Zenon DEF DisconnectDfs, CloseP2PConnectionEx, OnRemoteDied, NotAllowed, NotConnected,
       Closed, UpdateDfsSwitchStatus, DisconnectByRemote, DisconnectedByRemote, OnDeviceOffline,
       OfflinePosted, CleanUp, OnDeviceP2POffline, OnDeviceP2POnline, OfflineAllDevice, QuitGroup,
       GetSession, counts
  <2>2. ThreadsOK' /\ BusyKept
    BY <1>2, Asides, Zenon
  <2> QED
    BY <1>1, <2>1, <2>2, Zenon
<1>3. CASE \/ JoinGroup \/ ConnectDeviceByP2PAsync \/ DisconnectDeviceByP2P
           \/ DisconnectDevice \/ Stop \/ OnSessionOpened \/ (\E s \in pool : LinkBreaks(s))
           \/ UNCHANGED vars
  <2>1. UNCHANGED <<docs, mounted, overlap>> /\ UNCHANGED pc
    BY <1>3, Zenon DEF JoinGroup, ConnectDeviceByP2PAsync, DisconnectDeviceByP2P,
       DisconnectDevice, Stop, OnSessionOpened, LinkBreaks, counts, vars
  <2>2. ThreadsOK' /\ BusyKept
    BY <2>1, Asides, Zenon
  <2> QED
    BY <1>1, <2>1, <2>2, Zenon
<1>4. CASE (\E a \in Apps, dfs \in BOOLEAN : Connect(a, dfs)) \/ ConnectionCount \/ Connected
  <2>1. UNCHANGED <<docs, mounted, overlap>>
    BY <1>4, Zenon DEF Connect, ConnectionCount, Connected, counts
  <2> QED
    BY <1>1, <1>4, <2>1, Starts, Zenon
<1>5. CASE MountDfsDocs \/ MountAtStorage \/ MountCounted \/ MountFails
  BY <1>5, MountStep, MountMoves, Zenon DEF Moves
<1>6. ASSUME NEW t \in {"ipc", "remote", "dm", "actor"},
             UMountDfsCountOnly(t) \/ UMountAtStorage(t) \/ RemoveMountDfsCount(t) \/ UMountFails(t)
      PROVE  DocsOK' /\ ThreadsOK' /\ MountInv'
  BY <1>6, UnmountStep, UnmountMoves, Zenon DEF Moves
<1> QED
  BY <1>2, <1>3, <1>4, <1>5, <1>6, Zenon DEF Next

LEMMA MountInit == Init => DocsOK /\ ThreadsOK /\ MountInv
<1> SUFFICES ASSUME Init PROVE DocsOK /\ ThreadsOK /\ MountInv
  OBVIOUS
<1>1. DocsOK
  BY Zenon DEF Init, DocsOK, NoDocs
<1>2. ThreadsOK /\ \A t \in Threads : pc[t].at = "idle"
  <2>1. Idle \in [at : Places, app : Apps \cup {"none"}, clear : BOOLEAN] /\ Idle.at = "idle"
    BY PlaceFacts DEF Idle
  <2>2. pc = [t \in Threads |-> Idle]
    BY Zenon DEF Init
  <2> QED
    BY <2>1, <2>2, Zenon DEF ThreadsOK
<1>3. ~docs.present /\ ~mounted
  BY DEF Init, NoDocs
<1> QED
  BY <1>1, <1>2, <1>3, ThreadFacts DEF MountInv, Unmounting, At

(* The count of mounts and the storage manager agree (MountsAreRecorded),  *)
(* however calls of applications, disconnects by the other device and the  *)
(* device manager's events meet.                                           *)
THEOREM MountsAreRecordedThm == Spec => []MountsAreRecorded
<1>1. DocsOK /\ ThreadsOK /\ MountInv => MountsAreRecorded
  BY Zenon DEF MountInv, MountsAreRecorded
<1> QED
  BY <1>1, MountInit, MountKept, PTL DEF Spec

(***************************************************************************)
(* The sessions.  Covered(q): behind every command of q that opens a       *)
(* session is one that releases.                                           *)
(***************************************************************************)
Releases(q, j) == q[j].do \in Releasing
Covered(q) ==
  \A i \in 1..Len(q) : q[i].do = "connect" => \E j \in 1..Len(q) : j > i /\ Releases(q, j)
Released(q) == \E j \in 1..Len(q) : Releases(q, j)
Own == \E s \in pool : ~s.server
SessionInv == record = "current" \/ ((Own => Released(queue)) /\ Covered(queue))

LEMMA SessionInvMeans ==
  ASSUME LinkOK
  PROVE  SessionInv <=> SessionsCanBeReleased
<1>1. DOMAIN queue = 1..Len(queue)
  BY DEF LinkOK
<1> QED
  BY <1>1 DEF SessionInv, SessionsCanBeReleased, Own, Released, Covered, Releases, Opens

(* A command put at the end.                                               *)
LEMMA AppendCovered ==
  ASSUME NEW q \in Seq(Commands), NEW c \in Commands
  PROVE  /\ c.do \in Releasing => Released(Append(q, c)) /\ Covered(Append(q, c))
         /\ Released(q) => Released(Append(q, c))
         /\ Covered(q) /\ c.do # "connect" => Covered(Append(q, c))
<1> DEFINE r == Append(q, c)
           n == Len(q) + 1
<1>1. /\ r \in Seq(Commands) /\ Len(r) = n /\ Len(q) \in Nat
      /\ \A i \in 1..Len(q) : r[i] = q[i]
      /\ r[n] = c
  BY AppendFacts
<1> HIDE DEF r
<1>2. "connect" \notin Releasing
  BY DEF Releasing
<1>3. \A i \in 1..Len(r) : i \in 1..Len(q) \/ i = n
  BY <1>1
<1>4. \A i \in 1..Len(q) : i \in 1..Len(r) /\ n > i
  BY <1>1
<1>5. n \in 1..Len(r)
  BY <1>1
<1>6. c.do \in Releasing => Released(r) /\ Covered(r)
  BY <1>1, <1>2, <1>3, <1>4, <1>5 DEF Released, Covered, Releases
<1>7. Released(q) => Released(r)
  BY <1>1, <1>4, Zenon DEF Released, Releases
<1>8. Covered(q) /\ c.do # "connect" => Covered(r)
  BY <1>1, <1>3, <1>4, Zenon DEF Covered, Releases
<1> QED
  BY <1>6, <1>7, <1>8, Zenon DEF r

(* A command taken from the front.                                         *)
LEMMA TailCovered ==
  ASSUME NEW q \in Seq(Commands), q # <<>>
  PROVE  /\ Covered(q) => Covered(Tail(q))
         /\ Covered(q) /\ Head(q).do = "connect" => Released(Tail(q))
         /\ Released(q) /\ Head(q).do \notin Releasing => Released(Tail(q))
<1> DEFINE r == Tail(q)
<1>1. /\ r \in Seq(Commands) /\ Len(r) = Len(q) - 1 /\ Len(q) \in Nat /\ Len(q) > 0
      /\ \A i \in 1..(Len(q) - 1) : r[i] = q[i + 1]
      /\ Head(q) = q[1]
  BY TailFacts
<1> HIDE DEF r
<1>2. ASSUME NEW j \in 1..Len(q), j > 1
      PROVE  j - 1 \in 1..Len(r) /\ r[j - 1] = q[j]
  BY <1>1, <1>2
<1>3. ASSUME Covered(q), NEW i \in 1..Len(r), r[i].do = "connect"
      PROVE  \E j \in 1..Len(r) : j > i /\ Releases(r, j)
  <2>1. i + 1 \in 1..Len(q) /\ q[i + 1].do = "connect"
    BY <1>1, <1>3
  <2>2. PICK j \in 1..Len(q) : j > i + 1 /\ Releases(q, j)
    BY <1>3, <2>1, Zenon DEF Covered
  <2>3. j > 1 /\ j - 1 > i
    BY <1>1, <2>2
  <2> QED
    BY <1>2, <2>2, <2>3, Zenon DEF Releases
<1>4. ASSUME Covered(q), Head(q).do = "connect" PROVE Released(r)
  <2>1. 1 \in 1..Len(q) /\ q[1].do = "connect"
    BY <1>1, <1>4
  <2>2. PICK j \in 1..Len(q) : j > 1 /\ Releases(q, j)
    BY <1>4, <2>1, Zenon DEF Covered
  <2> QED
    BY <1>2, <2>2, Zenon DEF Released, Releases
<1>5. ASSUME Released(q), Head(q).do \notin Releasing PROVE Released(r)
  <2>1. PICK j \in 1..Len(q) : Releases(q, j)
    BY <1>5, Zenon DEF Released
  <2>2. j # 1
    BY <1>1, <1>5, <2>1, Zenon DEF Releases
  <2>3. j > 1
    BY <1>1, <2>2
  <2> QED
    BY <1>2, <2>1, <2>3, Zenon DEF Released, Releases
<1> QED
  BY <1>3, <1>4, <1>5, Zenon DEF Covered, r

LEMMA CommandFacts ==
  ASSUME MaxFds \in Nat
  PROVE  /\ \A n \in 0..MaxFds : [do |-> "get", fd |-> n] \in Commands
         /\ Do("connect") \in Commands /\ Do("disconnect") \in Commands /\
              Do("offline") \in Commands
         /\ Do("closeone") \in Commands /\ Do("all") \in Commands /\ Do("stop") \in Commands
         /\ Do("connect").do = "connect" /\ Do("disconnect").do \in Releasing
         /\ Do("offline").do \in Releasing /\ Do("closeone").do \in Releasing
         /\ Do("stop").do = "stop" /\ "stop" \in Releasing
         /\ Do("all").do \in Releasing /\ Do("all").do # "stop"
         /\ Do("connect").do # "stop" /\ Do("disconnect").do # "stop" /\ Do("offline").do # "stop"
BY DEF Commands, Do, Releasing

LinkInv == LinkOK /\ AgentInv /\ SessionInv

LEMMA LinkStays ==
  ASSUME LinkInv, UNCHANGED link
  PROVE  LinkInv'
BY Zenon DEF LinkInv, link, LinkOK, AgentInv, SessionInv, Own, Released, Covered, Releases

(* A command that is posted while the agent runs.                          *)
LEMMA RecvStep ==
  ASSUME LinkInv, agent = "running", NEW c \in Commands, queue' = Append(queue, c),
         UNCHANGED <<agent, pool, fds>>, kernel' \subseteq kernel,
         record' \in {"none", "current", "old"},
         c.do # "stop",
         \/ record' = "current"
         \/ c.do \in Releasing
         \/ record' = record /\ c.do # "connect"
  PROVE  LinkInv'
<1>1. LinkOK'
  BY AppendFacts DEF LinkInv, LinkOK
<1>2. AgentInv'
  <2>1. /\ Len(queue') = Len(queue) + 1 /\ Len(queue) \in Nat
        /\ \A i \in 1..Len(queue) : queue'[i] = queue[i]
        /\ queue'[Len(queue) + 1] = c
    BY AppendFacts DEF LinkInv, LinkOK
  <2>2. \A i \in 1..Len(queue') : i \in 1..Len(queue) \/ i = Len(queue) + 1
    BY <2>1
  <2> QED
    BY <2>1, <2>2 DEF LinkInv, AgentInv
<1>3. SessionInv'
  <2>1. queue \in Seq(Commands)
    BY Zenon DEF LinkInv, LinkOK
  <2>2. Own' <=> Own
    BY Zenon DEF Own
  <2>3. CASE record' = "current"
    BY <2>3, Zenon DEF SessionInv
  <2>4. CASE c.do \in Releasing
    BY <2>1, <2>4, AppendCovered, Zenon DEF SessionInv
  <2>5. CASE record' = record /\ c.do # "connect"
    BY <2>1, <2>2, <2>5, AppendCovered, Zenon DEF LinkInv, SessionInv
  <2> QED
    BY <2>3, <2>4, <2>5, Zenon
<1> QED
  BY <1>1, <1>2, <1>3, Zenon DEF LinkInv

(* A command that the actor takes.                                         *)
LEMMA TakeStep ==
  ASSUME LinkInv, NEW c, "stop" \notin c, Take(c), UNCHANGED <<record, agent>>,
         pool' \subseteq [fd : 1..MaxFds, server : BOOLEAN], kernel' \subseteq 1..MaxFds,
         fds' \in 0..MaxFds,
         \/ ~Own'
         \/ Head(queue).do = "connect"
         \/ Head(queue).do \notin Releasing /\ (Own' => Own)
  PROVE  LinkInv'
<1>1. queue \in Seq(Commands) /\ queue # <<>> /\ queue' = Tail(queue) /\ Head(queue).do # "stop"
  BY DEF LinkInv, LinkOK, Take, IsNext
<1>2. /\ queue' \in Seq(Commands) /\ Len(queue') = Len(queue) - 1 /\ Len(queue) \in Nat
      /\ \A i \in 1..(Len(queue) - 1) : queue'[i] = queue[i + 1]
      /\ Head(queue) = queue[1] /\ Len(queue) > 0
  BY <1>1, TailFacts
<1>3. LinkOK'
  BY <1>2, Zenon DEF LinkInv, LinkOK
<1>4. AgentInv'
  <2>1. agent # "gone"
    BY <1>1, Zenon DEF LinkInv, AgentInv
  <2>2. ASSUME agent = "stopping" PROVE queue' # <<>> /\ queue'[Len(queue')].do = "stop"
    <3>1. queue[Len(queue)].do = "stop"
      BY <2>2, Zenon DEF LinkInv, AgentInv
    <3>2. Len(queue) # 1
      BY <1>1, <1>2, <3>1, Zenon
    <3>3. Len(queue) - 1 \in 1..(Len(queue) - 1) /\ Len(queue) - 1 + 1 = Len(queue) /\
            Len(queue') > 0
      BY <1>2, <3>2
    <3>4. queue' # <<>>
      BY <3>3
    <3> QED
      BY <1>2, <3>1, <3>3, <3>4, Zenon
  <2>3. ASSUME agent = "running", NEW i \in 1..Len(queue') PROVE queue'[i].do # "stop"
    <3>1. i \in 1..(Len(queue) - 1) /\ i + 1 \in 1..Len(queue)
      BY <1>2
    <3> QED
      BY <1>2, <2>3, <3>1, Zenon DEF LinkInv, AgentInv
  <2> QED
    BY <2>1, <2>2, <2>3, Zenon DEF LinkInv, AgentInv
<1>5. SessionInv'
  <2>1. /\ Covered(queue) => Covered(queue')
        /\ Covered(queue) /\ Head(queue).do = "connect" => Released(queue')
        /\ Released(queue) /\ Head(queue).do \notin Releasing => Released(queue')
    BY <1>1, TailCovered, Zenon
  <2> QED
    BY <2>1, Zenon DEF LinkInv, SessionInv
<1> QED
  BY <1>3, <1>4, <1>5, Zenon DEF LinkInv

(* Opening a session.                                                      *)
LEMMA HoldOK ==
  ASSUME MaxFds \in Nat, LinkOK, NEW server \in BOOLEAN, Hold(server)
  PROVE  /\ pool' \subseteq [fd : 1..MaxFds, server : BOOLEAN] /\ kernel' \subseteq 1..MaxFds
         /\ fds' \in 0..MaxFds
         /\ server => (Own' => Own)
<1>1. fds + 1 \in 1..MaxFds /\ fds' = fds + 1
  BY DEF LinkOK, Hold
<1>2. [fd |-> fds + 1, server |-> server] \in [fd : 1..MaxFds, server : BOOLEAN]
  BY <1>1
<1>3. server => (Own' => Own)
  BY DEF Hold, Own
<1> QED
  BY <1>1, <1>2, <1>3 DEF LinkOK, Hold

(* The commands of DeviceManagerAgent.                                     *)
(* The command that stops an agent is behind all others.                   *)
LEMMA StopCovers ==
  ASSUME LinkInv, agent = "stopping"
  PROVE  Released(queue) /\ Covered(queue)
<1>1. queue \in Seq(Commands) /\ queue # <<>> /\ queue[Len(queue)].do = "stop"
  BY DEF LinkInv, LinkOK, AgentInv
<1>2. Len(queue) \in 1..Len(queue)
  BY <1>1
<1>3. \A i \in 1..Len(queue) : queue[i].do = "connect" => Len(queue) > i
  BY <1>1
<1>4. Releases(queue, Len(queue))
  BY <1>1 DEF Releases, Releasing
<1> QED
  BY <1>2, <1>3, <1>4, Zenon DEF Released, Covered

(* A command for the agent of the record.                                  *)
LEMMA RecordStep ==
  ASSUME LinkInv, NEW c \in Commands, RecvOfRecord(c), agent # "stopping",
         UNCHANGED <<pool, kernel, agent, fds>>, c.do # "stop",
         \/ record' = record
         \/ record' = "none" /\ c.do \in Releasing
  PROVE  LinkInv'
<1>1. record \in {"none", "current", "old"} /\ record' \in {"none", "current", "old"}
  BY DEF LinkInv, LinkOK
<1>2. CASE record = "current"
  <2>1. agent = "running"
    BY <1>2 DEF LinkInv, LinkOK, AgentInv
  <2>2. queue' = Append(queue, c)
    BY <1>2, <2>1, Zenon DEF RecvOfRecord, Recv
  <2>3. kernel' \subseteq kernel
    BY Zenon
  <2> QED
    BY <1>1, <1>2, <2>1, <2>2, <2>3, RecvStep, Zenon
<1>3. CASE record # "current"
  <2>1. UNCHANGED <<queue, pool, kernel, agent, fds>> /\ record' # "current"
    BY <1>3, Zenon DEF RecvOfRecord
  <2>2. LinkOK' /\ AgentInv'
    BY <1>1, <2>1 DEF LinkInv, LinkOK, AgentInv
  <2>3. SessionInv'
    BY <1>3, <2>1, Zenon DEF LinkInv, SessionInv, Own, Released, Covered, Releases
  <2> QED
    BY <2>2, <2>3, Zenon DEF LinkInv
<1> QED
  BY <1>2, <1>3, Zenon

(* The commands of DeviceManagerAgent.                                     *)
LEMMA AgentSteps ==
  ASSUME MaxFds \in Nat, LinkInv,
         \/ ConnectionCount \/ OnDeviceP2POnline \/ OfflinePosted \/ OfflineAllDevice
         \/ QuitGroup \/ JoinGroup
         \/ \E t \in {"ipc", "change", "remote", "death"} : OnDeviceP2POffline(t)
         \/ \E s \in pool : LinkBreaks(s)
  PROVE  LinkInv'
<1>1. CASE ConnectionCount
  <2>1. CASE UNCHANGED link
    BY <2>1, LinkStays, Zenon
  <2>2. CASE /\ record = "none" /\ agent = "running" /\ record' = "current"
             /\ UNCHANGED <<queue, pool, kernel, agent, fds>>
    <3>1. LinkOK' /\ AgentInv'
      BY <2>2 DEF LinkInv, LinkOK, AgentInv
    <3> QED
      BY <2>2, <3>1, Zenon DEF LinkInv, SessionInv
  <2>3. \/ UNCHANGED link
        \/ /\ record = "none" /\ agent = "running" /\ record' = "current"
           /\ UNCHANGED <<queue, pool, kernel, agent, fds>>
    BY <1>1 DEF ConnectionCount, QueryRelatedGroups, link
  <2> QED
    BY <2>1, <2>2, <2>3, Zenon
<1>2. CASE OfflinePosted
  <2>1. /\ RecvOfRecord(Do("offline")) /\ record' = "none"
        /\ UNCHANGED <<pool, kernel, agent, fds>>
    BY <1>2, Zenon DEF OfflinePosted
  <2>2. CASE agent # "stopping"
    BY <2>1, <2>2, RecordStep, CommandFacts, Zenon
  <2>3. CASE agent = "stopping"
    <3>1. UNCHANGED queue
      BY <2>1, <2>3 DEF RecvOfRecord, Recv
    <3>2. LinkOK' /\ AgentInv'
      BY <2>1, <2>3, <3>1 DEF LinkInv, LinkOK, AgentInv
    <3>3. Released(queue) /\ Covered(queue)
      BY <2>3, StopCovers, Zenon
    <3> QED
      BY <3>1, <3>2, <3>3, Zenon DEF LinkInv, SessionInv, Released, Covered, Releases
  <2> QED
    BY <2>2, <2>3, Zenon
<1>3. ASSUME NEW t, OnDeviceP2POffline(t) PROVE LinkInv'
  <2>1. /\ RecvOfRecord(Do("disconnect")) /\ record' = "none" /\ agent # "stopping"
        /\ UNCHANGED <<pool, kernel, agent, fds>>
    BY <1>3, Zenon DEF OnDeviceP2POffline, Unlocked
  <2> QED
    BY <2>1, RecordStep, CommandFacts, Zenon
<1>4. ASSUME NEW s \in pool, LinkBreaks(s) PROVE LinkInv'
  <2>1. /\ agent = "running" /\ UNCHANGED <<agent, pool, fds, record>> /\ kernel' \subseteq kernel
        /\ Recv([do |-> "get", fd |-> s.fd]) \/ Recv(Do("closeone"))
    BY <1>4, Zenon DEF LinkBreaks
  <2>2. s.fd \in 0..MaxFds
    BY DEF LinkInv, LinkOK
  <2>3. \E c \in Commands : queue' = Append(queue, c) /\ c.do # "connect" /\ c.do # "stop"
    <3>1. /\ [do |-> "get", fd |-> s.fd] \in Commands /\ [do |-> "get", fd |-> s.fd].do # "connect"
          /\ Do("closeone") \in Commands /\ Do("closeone").do # "connect"
          /\ [do |-> "get", fd |-> s.fd].do # "stop" /\ Do("closeone").do # "stop"
      BY <2>2 DEF Commands, Do
    <3> QED
      BY <2>1, <3>1, Zenon DEF Recv
  <2>4. record' = record /\ record' \in {"none", "current", "old"}
    BY <2>1, Zenon DEF LinkInv, LinkOK
  <2> QED
    BY <2>1, <2>3, <2>4, RecvStep, Zenon
<1>5. CASE QuitGroup
  <2>1. /\ agent = "running" /\ agent' = "stopping" /\ Recv(Do("stop"))
        /\ UNCHANGED <<record, pool, kernel, fds>> /\ queue \in Seq(Commands)
    BY <1>5, Zenon DEF QuitGroup, LinkInv, LinkOK
  <2>2. queue' = Append(queue, Do("stop"))
    BY <1>5, <2>1, Zenon DEF Recv
  <2>3. /\ queue' \in Seq(Commands) /\ queue' # <<>> /\ queue'[Len(queue')].do = "stop"
    BY <2>1, <2>2, CommandFacts, AppendFacts
  <2>4. Released(queue') /\ Covered(queue')
    BY <2>1, <2>2, CommandFacts, AppendCovered, Zenon
  <2>5. LinkOK'
    BY <2>1, <2>3, Zenon DEF LinkInv, LinkOK
  <2>6. AgentInv'
    BY <2>1, <2>3 DEF AgentInv
  <2> QED
    BY <2>4, <2>5, <2>6, Zenon DEF LinkInv, SessionInv
<1>6. CASE JoinGroup
  <2>1. agent = "gone" /\ agent' = "running" /\ UNCHANGED <<record, queue, pool, kernel, fds>>
    BY <1>6, Zenon DEF JoinGroup
  <2>2. LinkOK' /\ AgentInv'
    BY <2>1 DEF LinkInv, LinkOK, AgentInv
  <2>3. SessionInv'
    BY <2>1, Zenon DEF LinkInv, SessionInv, Own, Released, Covered, Releases
  <2> QED
    BY <2>2, <2>3, Zenon DEF LinkInv
<1>7. CASE OnDeviceP2POnline
  <2>1. /\ RecvOfRecord(Do("connect")) /\ agent # "stopping" /\ UNCHANGED record
        /\ UNCHANGED <<pool, kernel, agent, fds>>
    BY <1>7, Zenon DEF OnDeviceP2POnline, Unlocked
  <2> QED
    BY <2>1, RecordStep, CommandFacts, Zenon
<1>8. CASE OfflineAllDevice
  <2>1. /\ RecvOfRecord(Do("all")) /\ record' = "none" /\ agent # "stopping"
        /\ UNCHANGED <<pool, kernel, agent, fds>>
    BY <1>8, Zenon DEF OfflineAllDevice, Unlocked
  <2> QED
    BY <2>1, RecordStep, CommandFacts, Zenon
<1> QED
  BY <1>1, <1>2, <1>3, <1>4, <1>5, <1>6, <1>7, <1>8, Zenon

(* The commands of the actor, and a session the other device opens.        *)
LEMMA ActorSteps ==
  ASSUME MaxFds \in Nat, LinkInv,
         \/ ConnectDeviceByP2PAsync \/ DisconnectDeviceByP2P \/ DisconnectDevice
         \/ GetSession \/ Stop \/ OnSessionOpened
  PROVE  LinkInv'
<1>0. /\ pool \subseteq [fd : 1..MaxFds, server : BOOLEAN] /\ kernel \subseteq 1..MaxFds
      /\ fds \in 0..MaxFds
  BY Zenon DEF LinkInv, LinkOK
<1>1. CASE ConnectDeviceByP2PAsync
  <2>1. Take({"connect"}) /\ UNCHANGED <<record, agent>> /\ Head(queue).do = "connect"
    BY <1>1, Zenon DEF ConnectDeviceByP2PAsync, Take, IsNext
  <2>2. /\ pool' \subseteq [fd : 1..MaxFds, server : BOOLEAN] /\ kernel' \subseteq 1..MaxFds
        /\ fds' \in 0..MaxFds
    BY <1>0, <1>1, HoldOK, Zenon DEF ConnectDeviceByP2PAsync, LinkInv
  <2>3. "stop" \notin {"connect"}
    OBVIOUS
  <2> QED
    BY <2>1, <2>2, <2>3, TakeStep
<1>2. CASE DisconnectDeviceByP2P
  <2>1. /\ Take({"disconnect"}) /\ UNCHANGED <<record, agent, fds>>
        /\ pool' = pool \ {s \in pool : ~s.server}
        /\ kernel' \subseteq kernel
    BY <1>2, Zenon DEF DisconnectDeviceByP2P, ReleaseSession
  <2>2. ~Own'
    BY <2>1, Zenon DEF Own
  <2>3. pool' \subseteq pool
    BY <2>1, Zenon
  <2>4. "stop" \notin {"disconnect"}
    OBVIOUS
  <2> QED
    BY <1>0, <2>1, <2>2, <2>3, <2>4, TakeStep
<1>3. CASE DisconnectDevice
  <2>1. /\ Take({"offline", "closeone", "all"}) /\ UNCHANGED <<record, agent, fds>>
        /\ pool' = pool \ pool /\ kernel' \subseteq kernel
    BY <1>3, Zenon DEF DisconnectDevice, ReleaseSession
  <2>2. ~Own' /\ pool' \subseteq pool
    BY <2>1, Zenon DEF Own
  <2>3. "stop" \notin {"offline", "closeone", "all"}
    OBVIOUS
  <2> QED
    BY <1>0, <2>1, <2>2, <2>3, TakeStep
<1>4. CASE GetSession
  <2> DEFINE lost == {s \in pool : s.fd = Head(queue).fd}
  <2>1. Take({"get"}) /\ UNCHANGED <<record, agent>> /\ Head(queue).do = "get"
    BY <1>4, Zenon DEF GetSession, Take, IsNext
  <2>2. \/ /\ \E s \in lost : ~s.server
           /\ fds < MaxFds /\ fds' = fds + 1
           /\ pool' = (pool \ lost) \cup {[fd |-> fds + 1, server |-> FALSE]}
           /\ kernel' = (kernel \ {Head(queue).fd}) \cup {fds + 1}
        \/ pool' = pool \ lost /\ kernel' = kernel \ {Head(queue).fd} /\ UNCHANGED fds
    BY <1>4, Zenon DEF GetSession
  <2>3. /\ pool' \subseteq [fd : 1..MaxFds, server : BOOLEAN] /\ kernel' \subseteq 1..MaxFds
        /\ fds' \in 0..MaxFds
    <3>1. CASE /\ fds < MaxFds /\ fds' = fds + 1
               /\ pool' = (pool \ lost) \cup {[fd |-> fds + 1, server |-> FALSE]}
               /\ kernel' = (kernel \ {Head(queue).fd}) \cup {fds + 1}
      <4>1. fds + 1 \in 1..MaxFds /\ fds + 1 \in 0..MaxFds
        BY <1>0, <3>1
      <4>2. [fd |-> fds + 1, server |-> FALSE] \in [fd : 1..MaxFds, server : BOOLEAN]
        BY <4>1
      <4> QED
        BY <1>0, <3>1, <4>1, <4>2, Zenon
    <3>2. CASE pool' = pool \ lost /\ kernel' = kernel \ {Head(queue).fd} /\ UNCHANGED fds
      BY <1>0, <3>2, Zenon
    <3> QED
      BY <2>2, <3>1, <3>2, Zenon
  <2>4. Own' => Own
    BY <2>2, Zenon DEF Own
  <2>5. Head(queue).do \notin Releasing
    BY <2>1 DEF Releasing
  <2>6. "stop" \notin {"get"}
    OBVIOUS
  <2> QED
    BY <2>1, <2>3, <2>4, <2>5, <2>6, TakeStep
<1>5. CASE Stop
  <2>1. agent' = "gone" /\ queue' = <<>> /\ pool' = {} /\ kernel' = {} /\ UNCHANGED fds
    BY <1>5, Zenon DEF Stop
  <2>2. LinkOK' /\ record' # "current"
    BY <1>5, <2>1 DEF Stop, LinkInv, LinkOK
  <2>4. SessionInv'
    BY <2>1 DEF SessionInv, Own, Covered
  <2>5. AgentInv'
    BY <2>1, <2>2 DEF AgentInv
  <2> QED
    BY <2>2, <2>4, <2>5, Zenon DEF LinkInv
<1>6. CASE OnSessionOpened
  <2>1. agent = "running" /\ Hold(TRUE) /\ UNCHANGED <<record, queue, agent>>
    BY <1>6, Zenon DEF OnSessionOpened
  <2>2. /\ pool' \subseteq [fd : 1..MaxFds, server : BOOLEAN] /\ kernel' \subseteq 1..MaxFds
        /\ fds' \in 0..MaxFds /\ (Own' => Own)
    BY <2>1, HoldOK, Zenon DEF LinkInv
  <2>3. LinkOK' /\ AgentInv'
    BY <2>1, <2>2 DEF LinkInv, LinkOK, AgentInv
  <2>4. SessionInv'
    BY <2>1, <2>2, Zenon DEF LinkInv, SessionInv, Released, Covered, Releases
  <2> QED
    BY <2>3, <2>4, Zenon DEF LinkInv
<1> QED
  BY <1>1, <1>2, <1>3, <1>4, <1>5, <1>6, Zenon

LEMMA LinkKept ==
  ASSUME MaxFds \in Nat, LinkInv, [Next]_vars
  PROVE  LinkInv'
<1>1. CASE \/ \E a \in Apps : \/ \E dfs \in BOOLEAN : Connect(a, dfs)
                              \/ DisconnectDfs(a) \/ CloseP2PConnectionEx(a) \/ OnRemoteDied(a)
           \/ NotAllowed \/ Connected \/ NotConnected \/ Closed
           \/ MountDfsDocs \/ MountAtStorage \/ MountCounted \/ MountFails
           \/ UpdateDfsSwitchStatus \/ DisconnectByRemote \/ DisconnectedByRemote
           \/ OnDeviceOffline \/ UNCHANGED vars
  <2>1. UNCHANGED link
    BY <1>1, Zenon DEF Connect, DisconnectDfs, CloseP2PConnectionEx, OnRemoteDied, NotAllowed,
       Connected, NotConnected, Closed, MountDfsDocs, MountAtStorage, MountCounted, MountFails,
       UpdateDfsSwitchStatus, DisconnectByRemote, DisconnectedByRemote, OnDeviceOffline, vars
  <2> QED
    BY <2>1, LinkStays, Zenon
<1>2. ASSUME NEW t, UMountDfsCountOnly(t) \/ UMountAtStorage(t) \/ RemoveMountDfsCount(t)
                    \/ UMountFails(t) \/ CleanUp(t)
      PROVE  LinkInv'
  <2>1. UNCHANGED link
    BY <1>2, Zenon DEF UMountDfsCountOnly, UMountAtStorage, RemoveMountDfsCount, UMountFails,
       CleanUp
  <2> QED
    BY <2>1, LinkStays, Zenon
<1> QED
  BY <1>1, <1>2, AgentSteps, ActorSteps, Zenon DEF Next

LEMMA LinkInit ==
  ASSUME MaxFds \in Nat
  PROVE  Init => LinkInv
<1> SUFFICES ASSUME Init PROVE LinkInv
  OBVIOUS
<1>1. record = "none" /\ queue = <<>> /\ pool = {} /\ kernel = {} /\ agent = "running" /\ fds = 0
  BY Zenon DEF Init
<1>2. LinkOK
  <2>1. 0 \in 0..MaxFds /\ <<>> \in Seq(Commands)
    OBVIOUS
  <2> QED
    BY <1>1, <2>1, Zenon DEF LinkOK
<1>3. \A i \in 1..Len(queue) : FALSE
  BY <1>1
<1>4. AgentInv
  BY <1>1, <1>3, Zenon DEF AgentInv
<1>5. SessionInv
  BY <1>1, <1>3, Zenon DEF SessionInv, Own, Covered
<1> QED
  BY <1>2, <1>4, <1>5, Zenon DEF LinkInv

(* A session that this device opened, or is about to open, can always      *)
(* still be released (SessionsCanBeReleased).                              *)
THEOREM SessionsCanBeReleasedThm ==
  ASSUME MaxFds \in Nat
  PROVE  Spec => []SessionsCanBeReleased
<1>1. LinkInv => SessionsCanBeReleased
  BY SessionInvMeans, Zenon DEF LinkInv
<1> QED
  BY <1>1, LinkInit, LinkKept, PTL DEF Spec

-----------------------------------------------------------------------------
(***************************************************************************)
(* The control channels, for any clients and any bounds: a call returns an *)
(* answer of the server to its own request, and the server knows the       *)
(* channel of a client.                                                    *)
(***************************************************************************)
CONSTANTS Clients, MaxSockets

VARIABLES
    channel, outbox, waiters, call, closers, sockets, wire, events, serverMap, notices, stuck,
    answered, msgs

Control == INSTANCE ControlChannel

(* A call that waits has one waiter, for its own request, which holds      *)
(* nothing or what the server sent for it; a call that does not wait has   *)
(* none.  What a call returned the server sent for it.                     *)
Types == {"none", "check", "publish", "cancel", "response"}
Answers == {Control!NoAnswer, "true", "false"}
Calls == [at : {"idle", "send", "wait"}, type : Types, msg : Nat, got : Answers]
Waiter(m, r) == [msg |-> m, response |-> r]
Sent(c, m, r) == r # Control!NoAnswer => <<c, m, r>> \in answered
Waits(c) ==
  IF call[c].at = "wait"
  THEN \E r \in Answers : waiters[c] = {Waiter(call[c].msg, r)} /\ Sent(c, call[c].msg, r)
  ELSE waiters[c] = {}
WaitInv ==
  /\ call \in [Clients -> Calls] /\ msgs \in [Clients -> Nat] /\ DOMAIN waiters = Clients
  /\ \A c \in Clients : Waits(c) /\ Sent(c, call[c].msg, call[c].got)

Sockets == 1..Len(sockets)
ConnectEvent(s) == [to |-> "server", kind |-> "connected", sock |-> s]
CloseEvent(t, s) == [to |-> t, kind |-> "closed", sock |-> s]

SocketsOK ==
  /\ sockets \in Seq([client : Clients, live : BOOLEAN])
  /\ channel \in [Clients -> 0..Len(sockets)] /\ serverMap \in [Clients -> 0..Len(sockets)]
  /\ \A e \in events : \E s \in Sockets :
       e \in {ConnectEvent(s), CloseEvent("client", s), CloseEvent("server", s)}

(* A response on the wire is one that the server sent to that client.      *)
Messages ==
  [to : {"client", "server"}, sock : Sockets, type : Types, msg : Nat, body : Answers]
Right(m) == m.to = "client" => <<sockets[m.sock].client, m.msg, m.body>> \in answered
RightOnes == {m \in Messages : Right(m)}
WireInv ==
  /\ outbox \in [Clients -> Seq([type : Types, msg : Nat])]
  /\ wire \in Seq(RightOnes)

(* The channel of a client is its newest socket; only the end of a dead    *)
(* one is reported.                                                        *)
ChannelInv ==
  /\ \A c \in Clients : channel[c] # 0 =>
       /\ sockets[channel[c]].client = c
       /\ \A r \in Sockets : sockets[r].client = c => r <= channel[c]
  /\ \A s \in Sockets : \A t \in {"client", "server"} :
       CloseEvent(t, s) \in events => ~sockets[s].live

(* The server has the live channel of a client once its connect is         *)
(* reported, when all earlier connects are; a dead one it has until its    *)
(* end is reported.                                                        *)
ServerInv ==
  /\ \A c \in Clients : serverMap[c] # 0 => sockets[serverMap[c]].client = c
  /\ \A c \in Clients :
       channel[c] # 0 /\ sockets[channel[c]].live /\ ConnectEvent(channel[c]) \notin events =>
       /\ serverMap[c] = channel[c]
       /\ \A r \in Sockets : sockets[r].client = c => ConnectEvent(r) \notin events
  /\ \A s \in Sockets : ~sockets[s].live /\ CloseEvent("server", s) \notin events =>
       ConnectEvent(s) \notin events /\ serverMap[sockets[s].client] # s

(***************************************************************************)
(* The answers.                                                            *)
(***************************************************************************)
LEMMA WaiterOfIs ==
  ASSUME NEW c \in Clients, NEW r, waiters[c] = {Waiter(call[c].msg, r)}
  PROVE  Control!WaiterOf(c) = Waiter(call[c].msg, r)
BY DEF Control!WaiterOf, Waiter

LEMMA WaitStays ==
  ASSUME WaitInv, UNCHANGED <<waiters, call, msgs>>, answered \subseteq answered'
  PROVE  WaitInv'
<1>1. \A c, m, r : Sent(c, m, r) => Sent(c, m, r)'
  BY Zenon DEF Sent
<1> QED
  BY <1>1, Zenon DEF WaitInv, Waits

(* What stays as it is for the other clients.                              *)
LEMMA OthersWait ==
  ASSUME WaitInv, NEW c \in Clients, UNCHANGED answered,
         \A x \in Clients \ {c} : waiters'[x] = waiters[x] /\ call'[x] = call[x]
  PROVE  \A x \in Clients \ {c} : Waits(x)' /\ Sent(x, call[x].msg, call[x].got)'
BY Zenon DEF WaitInv, Waits, Sent

LEMMA CallFacts ==
  ASSUME NEW x \in Calls
  PROVE  /\ x.at \in {"idle", "send", "wait"} /\ x.type \in Types /\ x.msg \in Nat /\ x.got \in Answers
         /\ [x EXCEPT !.at = "wait"] \in Calls /\ [x EXCEPT !.at = "wait"].at = "wait"
         /\ [x EXCEPT !.at = "wait"].msg = x.msg /\ [x EXCEPT !.at = "wait"].got = x.got
         /\ \A g \in Answers : LET y == [x EXCEPT !.at = "idle", !.got = g] IN
              y \in Calls /\ y.at = "idle" /\ y.msg = x.msg /\ y.got = g
<1>1. /\ x.at \in {"idle", "send", "wait"} /\ x.type \in Types /\ x.msg \in Nat /\ x.got \in Answers
  BY Zenon DEF Calls
<1>2. /\ [x EXCEPT !.at = "wait"] \in Calls /\ [x EXCEPT !.at = "wait"].at = "wait"
      /\ [x EXCEPT !.at = "wait"].msg = x.msg /\ [x EXCEPT !.at = "wait"].got = x.got
  BY Zenon DEF Calls
<1>3. ASSUME NEW g \in Answers
      PROVE  LET y == [x EXCEPT !.at = "idle", !.got = g] IN
               y \in Calls /\ y.at = "idle" /\ y.msg = x.msg /\ y.got = g
  BY DEF Calls
<1> QED
  BY <1>1, <1>2, <1>3, Zenon

(* A call of client c returns.                                             *)
LEMMA ReturnStep ==
  ASSUME WaitInv, NEW c \in Clients, NEW got \in Answers, Control!Return(c, got),
         Sent(c, call[c].msg, got), DOMAIN waiters' = Clients, waiters'[c] = {},
         \A x \in Clients \ {c} : waiters'[x] = waiters[x], UNCHANGED <<msgs, answered>>
  PROVE  WaitInv'
<1> DEFINE y == [call[c] EXCEPT !.at = "idle", !.got = got]
<1>1. call' = [call EXCEPT ![c] = y]
  BY DEF Control!Return, WaitInv
<1>2. y \in Calls /\ y.at = "idle" /\ y.msg = call[c].msg /\ y.got = got
  <2>1. PICK x \in Calls : x = call[c]
    BY Zenon DEF WaitInv
  <2>2. \A g \in Answers : LET z == [x EXCEPT !.at = "idle", !.got = g] IN
          z \in Calls /\ z.at = "idle" /\ z.msg = x.msg /\ z.got = g
    BY CallFacts, Zenon
  <2> QED
    BY <2>1, <2>2, Zenon
<1> HIDE DEF y
<1>3. /\ call' \in [Clients -> Calls] /\ call'[c] = y
      /\ \A x \in Clients \ {c} : call'[x] = call[x]
  BY <1>1, <1>2, Zenon DEF WaitInv
<1>4. \A x \in Clients \ {c} : Waits(x)' /\ Sent(x, call[x].msg, call[x].got)'
  BY <1>3, OthersWait, Zenon
<1>5. Waits(c)'
  <2>1. call'[c].at # "wait"
    BY <1>2, <1>3
  <2> QED
    BY <2>1, Zenon DEF Waits
<1>6. Sent(c, call[c].msg, call[c].got)'
  BY <1>2, <1>3, Zenon DEF Sent
<1> QED
  BY <1>3, <1>4, <1>5, <1>6, Zenon DEF WaitInv

LEMMA RequestStep ==
  ASSUME WaitInv, NEW c \in Clients, NEW type \in {"check", "publish", "cancel"},
         Control!Request(c, type)
  PROVE  WaitInv'
<1> DEFINE y == [at |-> "send", type |-> type, msg |-> msgs[c] + 1, got |-> Control!NoAnswer]
<1>1. /\ call[c].at = "idle" /\ call' = [call EXCEPT ![c] = y] /\ UNCHANGED <<waiters, answered>>
      /\ msgs' = [msgs EXCEPT ![c] = @ + 1]
  BY Zenon DEF Control!Request, Control!server
<1>2. y \in Calls /\ y.at # "wait" /\ y.got = Control!NoAnswer /\ msgs' \in [Clients -> Nat]
  BY <1>1 DEF WaitInv, Calls, Types, Answers
<1> HIDE DEF y
<1>3. /\ call' \in [Clients -> Calls] /\ call'[c] = y
      /\ \A x \in Clients \ {c} : call'[x] = call[x]
  BY <1>1, <1>2, Zenon DEF WaitInv
<1>4. \A x \in Clients \ {c} : Waits(x)' /\ Sent(x, call[x].msg, call[x].got)'
  BY <1>1, <1>3, OthersWait, Zenon
<1>5. call[c].at # "wait"
  BY <1>1
<1>6. Waits(c)' /\ Sent(c, call[c].msg, call[c].got)'
  BY <1>1, <1>2, <1>3, <1>5, Zenon DEF WaitInv, Waits, Sent
<1> QED
  BY <1>1, <1>2, <1>3, <1>4, <1>6, Zenon DEF WaitInv

LEMMA SendStep ==
  ASSUME WaitInv, NEW c \in Clients, Control!SendRequest(c) \/ Control!SendRequestFails(c)
  PROVE  WaitInv'
<1>0. call[c].at # "wait" /\ UNCHANGED <<msgs, answered>>
  BY DEF Control!SendRequest, Control!SendRequestFails, Control!server
<1>1. waiters[c] = {} /\ DOMAIN waiters = Clients
  BY <1>0, Zenon DEF WaitInv, Waits
<1>2. CASE UNCHANGED waiters /\ Control!Return(c, Control!NoAnswer)
  <2>1. Control!NoAnswer \in Answers /\ Sent(c, call[c].msg, Control!NoAnswer)
    BY Zenon DEF Answers, Sent
  <2> QED
    BY <1>0, <1>1, <1>2, <2>1, ReturnStep, Zenon
<1>3. CASE /\ waiters' = [waiters EXCEPT ![c] = @ \cup {Waiter(call[c].msg, Control!NoAnswer)}]
           /\ call' = [call EXCEPT ![c].at = "wait"]
  <2> DEFINE y == [call[c] EXCEPT !.at = "wait"]
  <2>1. call' = [call EXCEPT ![c] = y]
    BY <1>3 DEF WaitInv
  <2>2. y \in Calls /\ y.at = "wait" /\ y.msg = call[c].msg /\ y.got = call[c].got
    BY CallFacts, Zenon DEF WaitInv
  <2> HIDE DEF y
  <2>3. /\ call' \in [Clients -> Calls] /\ call'[c] = y
        /\ \A x \in Clients \ {c} : call'[x] = call[x]
    BY <2>1, <2>2, Zenon DEF WaitInv
  <2>4. /\ DOMAIN waiters' = Clients /\ waiters'[c] = {Waiter(call[c].msg, Control!NoAnswer)}
        /\ \A x \in Clients \ {c} : waiters'[x] = waiters[x]
    BY <1>1, <1>3
  <2>5. \A x \in Clients \ {c} : Waits(x)' /\ Sent(x, call[x].msg, call[x].got)'
    BY <1>0, <2>3, <2>4, OthersWait, Zenon
  <2>6. Waits(c)'
    <3>1. Control!NoAnswer \in Answers /\ \A n : Sent(c, n, Control!NoAnswer)'
      BY Zenon DEF Answers, Sent
    <3>2. call'[c].at = "wait" /\ waiters'[c] = {Waiter(call'[c].msg, Control!NoAnswer)}
      BY <2>2, <2>3, <2>4, Zenon
    <3> QED
      BY <3>1, <3>2, Zenon DEF Waits
  <2>7. Sent(c, call[c].msg, call[c].got)'
    BY <1>0, <2>2, <2>3, Zenon DEF WaitInv, Sent
  <2> QED
    BY <1>0, <2>3, <2>4, <2>5, <2>6, <2>7, Zenon DEF WaitInv
<1> QED
  BY <1>2, <1>3, Zenon DEF Control!SendRequest, Control!SendRequestFails, Waiter

LEMMA OverStep ==
  ASSUME WaitInv, NEW c \in Clients, Control!Answered(c) \/ Control!TimedOut(c)
  PROVE  WaitInv'
<1>1. PICK r \in Answers : waiters[c] = {Waiter(call[c].msg, r)} /\ Sent(c, call[c].msg, r)
  BY Zenon DEF WaitInv, Waits, Control!Answered, Control!TimedOut
<1>2. Control!WaiterOf(c) = Waiter(call[c].msg, r) /\ Control!WaiterOf(c).response = r
  BY <1>1, WaiterOfIs DEF Waiter
<1>3. Control!WaitOver(c, r)
  BY <1>2, Zenon DEF Control!Answered, Control!TimedOut
<1>4. /\ Control!Return(c, r) /\ UNCHANGED <<msgs, answered>>
      /\ waiters' = [waiters EXCEPT ![c] = @ \ {Waiter(call[c].msg, r)}]
  BY <1>2, <1>3, Zenon DEF Control!WaitOver, Control!server
<1>5. /\ DOMAIN waiters' = Clients /\ waiters'[c] = {}
      /\ \A x \in Clients \ {c} : waiters'[x] = waiters[x]
  BY <1>1, <1>4 DEF WaitInv
<1> QED
  BY <1>1, <1>4, <1>5, ReturnStep, Zenon

(* A response that arrives is the server's answer to the waiter's request. *)
LEMMA AnswerStep ==
  ASSUME WaitInv, WireInv, NEW i, Control!HandleResponse(i)
  PROVE  WaitInv'
<1> DEFINE m == wire[i]
           c == sockets[m.sock].client
           Put(W) == {IF w.msg = m.msg THEN [w EXCEPT !.response = m.body] ELSE w : w \in W}
<1>1. /\ waiters' = [waiters EXCEPT ![c] = Put(@)] /\ UNCHANGED <<call, msgs, answered>>
      /\ i \in DOMAIN wire /\ m.to = "client"
  BY Zenon DEF Control!HandleResponse, Control!server
<1>2. m \in RightOnes
  BY <1>1 DEF WireInv
<1>3. m.body \in Answers /\ <<c, m.msg, m.body>> \in answered
  BY <1>1, <1>2 DEF RightOnes, Right, Messages
<1>4. /\ DOMAIN waiters' = Clients
      /\ \A x \in Clients : waiters'[x] = waiters[x] \/ (x = c /\ waiters'[x] = Put(waiters[x]))
  BY <1>1, Zenon DEF WaitInv
<1>5. Put({}) = {}
  BY Zenon
<1>6. \A n, r : \/ Put({Waiter(n, r)}) = {Waiter(n, r)}
                \/ n = m.msg /\ Put({Waiter(n, r)}) = {Waiter(n, m.body)}
  BY DEF Waiter
<1> HIDE DEF m, c, Put
<1>7. ASSUME NEW x \in Clients PROVE Waits(x)'
  <2>1. CASE call[x].at = "wait"
    <3>1. PICK r \in Answers : waiters[x] = {Waiter(call[x].msg, r)} /\ Sent(x, call[x].msg, r)
      BY <2>1, Zenon DEF WaitInv, Waits
    <3>2. CASE waiters'[x] = waiters[x]
      BY <1>1, <2>1, <3>1, <3>2, Zenon DEF Waits, Sent
    <3>3. CASE x = c /\ waiters'[x] = Put(waiters[x])
      <4>1. CASE waiters'[x] = {Waiter(call[x].msg, r)}
        BY <3>1, <3>2, <4>1, Zenon
      <4>2. CASE call[x].msg = m.msg /\ waiters'[x] = {Waiter(call[x].msg, m.body)}
        <5>1. Sent(x, call[x].msg, m.body)
          BY <1>3, <3>3, <4>2, Zenon DEF Sent
        <5> QED
          BY <1>1, <1>3, <2>1, <4>2, <5>1, Zenon DEF Waits, Sent
      <4>3. waiters'[x] = Put({Waiter(call[x].msg, r)})
        BY <3>1, <3>3, Zenon
      <4> QED
        BY <1>6, <4>1, <4>2, <4>3, Zenon
    <3> QED
      BY <1>4, <3>2, <3>3, Zenon
  <2>2. CASE call[x].at # "wait"
    BY <1>1, <1>4, <1>5, <2>2, Zenon DEF WaitInv, Waits
  <2> QED
    BY <2>1, <2>2, Zenon
<1>8. \A x \in Clients : Sent(x, call[x].msg, call[x].got)'
  BY <1>1, Zenon DEF WaitInv, Sent
<1> QED
  BY <1>1, <1>4, <1>7, <1>8, Zenon DEF WaitInv

(***************************************************************************)
(* The sockets.                                                            *)
(***************************************************************************)
SocketInv == SocketsOK /\ ChannelInv /\ ServerInv

LEMMA EventFacts ==
  /\ \A s, r : ConnectEvent(s) = ConnectEvent(r) => s = r
  /\ \A t, u, s, r : CloseEvent(t, s) = CloseEvent(u, r) => t = u /\ s = r
  /\ \A t, s, r : ConnectEvent(s) # CloseEvent(t, r)
BY DEF ConnectEvent, CloseEvent

LEMMA SocketsStay ==
  ASSUME SocketInv, UNCHANGED <<channel, sockets, events, serverMap>>
  PROVE  SocketInv'
BY Zenon DEF SocketInv, SocketsOK, ChannelInv, ServerInv, Sockets

LEMMA NewSocket ==
  ASSUME SocketsOK, NEW c \in Clients, sockets' = Append(sockets, [client |-> c, live |-> TRUE])
  PROVE  /\ sockets' \in Seq([client : Clients, live : BOOLEAN])
         /\ Len(sockets) \in Nat /\ Len(sockets') = Len(sockets) + 1
         /\ Len(sockets) + 1 \in Sockets' /\ Len(sockets) + 1 \notin Sockets
         /\ \A s \in Sockets' : s \in Sockets \/ s = Len(sockets) + 1
         /\ \A s \in Sockets : s \in Sockets' /\ sockets'[s] = sockets[s] /\ s <= Len(sockets) + 1
         /\ sockets'[Len(sockets) + 1].client = c /\ sockets'[Len(sockets) + 1].live
BY DEF SocketsOK, Sockets

LEMMA SeqFacts ==
  ASSUME NEW S, NEW q \in Seq(S), NEW i \in 1..Len(q)
  PROVE  /\ q[i] \in S
         /\ \A x \in S : [q EXCEPT ![i] = x] \in Seq(S) /\ Len([q EXCEPT ![i] = x]) = Len(q)
OBVIOUS

LEMMA SocketFacts ==
  ASSUME SocketsOK
  PROVE  /\ \A s \in Sockets : s # 0 /\ sockets[s].client \in Clients /\ sockets[s].live \in BOOLEAN
         /\ \A c \in Clients : channel[c] # 0 => channel[c] \in Sockets
         /\ \A c \in Clients : serverMap[c] # 0 => serverMap[c] \in Sockets
<1>1. \A s \in Sockets : sockets[s] \in [client : Clients, live : BOOLEAN]
  BY SeqFacts, Zenon DEF SocketsOK, Sockets
<1>2. \A s \in Sockets : s # 0
  BY DEF SocketsOK, Sockets
<1>3. \A c \in Clients : channel[c] # 0 => channel[c] \in Sockets
  BY DEF SocketsOK, Sockets
<1>4. \A c \in Clients : serverMap[c] # 0 => serverMap[c] \in Sockets
  BY DEF SocketsOK, Sockets
<1>5. \A x \in [client : Clients, live : BOOLEAN] : x.client \in Clients /\ x.live \in BOOLEAN
  OBVIOUS
<1> QED
  BY <1>1, <1>2, <1>3, <1>4, <1>5, Zenon

LEMMA DeadSocket ==
  ASSUME SocketsOK, NEW s \in Sockets, sockets' = [sockets EXCEPT ![s].live = FALSE]
  PROVE  /\ sockets' \in Seq([client : Clients, live : BOOLEAN])
         /\ Len(sockets') = Len(sockets) /\ Sockets' = Sockets /\ ~sockets'[s].live
         /\ \A r \in Sockets : sockets'[r].client = sockets[r].client
         /\ \A r \in Sockets \ {s} : sockets'[r].live = sockets[r].live
<1> DEFINE e == [sockets[s] EXCEPT !.live = FALSE]
<1>1. \A x \in [client : Clients, live : BOOLEAN] : LET y == [x EXCEPT !.live = FALSE] IN
        y \in [client : Clients, live : BOOLEAN] /\ y.client = x.client /\ ~y.live
  BY Zenon
<1>2. sockets[s] \in [client : Clients, live : BOOLEAN]
  BY SeqFacts, Zenon DEF SocketsOK, Sockets
<1>3. e \in [client : Clients, live : BOOLEAN] /\ e.client = sockets[s].client /\ ~e.live
  BY <1>1, <1>2, Zenon
<1>4. sockets' = [sockets EXCEPT ![s] = e]
  OBVIOUS
<1> HIDE DEF e
<1>5. sockets' \in Seq([client : Clients, live : BOOLEAN]) /\ Len(sockets') = Len(sockets)
  <2>1. \A x \in [client : Clients, live : BOOLEAN] :
          /\ [sockets EXCEPT ![s] = x] \in Seq([client : Clients, live : BOOLEAN])
          /\ Len([sockets EXCEPT ![s] = x]) = Len(sockets)
    BY SeqFacts DEF SocketsOK, Sockets
  <2>2. /\ [sockets EXCEPT ![s] = e] \in Seq([client : Clients, live : BOOLEAN])
        /\ Len([sockets EXCEPT ![s] = e]) = Len(sockets)
    BY <1>3, <2>1, Zenon
  <2> QED
    BY <1>4, <2>2, Zenon
<1>6. sockets'[s] = e /\ \A r \in Sockets \ {s} : sockets'[r] = sockets[r]
  BY <1>4 DEF SocketsOK, Sockets
<1> QED
  BY <1>3, <1>5, <1>6, Zenon DEF Sockets

(* A client opens a channel: it has none.                                  *)
LEMMA LinkStep ==
  ASSUME SocketInv, NEW c \in Clients, Control!CreatControlLink(c), UNCHANGED serverMap
  PROVE  SocketInv'
<1>1. CASE channel[c] # 0
  BY <1>1, SocketsStay, Zenon DEF Control!CreatControlLink
<1>2. CASE channel[c] = 0
  <2>0. SocketsOK
    BY Zenon DEF SocketInv
  <2> PICK n : n = Len(sockets) + 1
    OBVIOUS
  <2>1. /\ sockets' = Append(sockets, [client |-> c, live |-> TRUE])
        /\ channel' = [channel EXCEPT ![c] = n]
        /\ events' = events \cup {ConnectEvent(n)}
    BY <1>2, Zenon DEF Control!CreatControlLink, ConnectEvent
  <2>2. /\ sockets' \in Seq([client : Clients, live : BOOLEAN])
        /\ Len(sockets) \in Nat /\ Len(sockets') = n
        /\ n \in Sockets' /\ n \notin Sockets
        /\ \A s \in Sockets' : s \in Sockets \/ s = n
        /\ \A s \in Sockets : s \in Sockets' /\ sockets'[s] = sockets[s] /\ s <= n
        /\ sockets'[n].client = c /\ sockets'[n].live
    BY <2>0, <2>1, NewSocket, Zenon
  <2>3. channel'[c] = n /\ \A x \in Clients \ {c} : channel'[x] = channel[x]
    BY <2>0, <2>1, Zenon DEF SocketsOK
  <2>4. SocketsOK'
    <3>1. channel' \in [Clients -> 0..Len(sockets')] /\ serverMap' \in [Clients -> 0..Len(sockets')]
      BY <2>0, <2>1, <2>2 DEF SocketsOK
    <3>2. \A e \in events' : \E s \in Sockets' :
            e \in {ConnectEvent(s), CloseEvent("client", s), CloseEvent("server", s)}
      BY <2>0, <2>1, <2>2, Zenon DEF SocketsOK
    <3> QED
      BY <2>2, <3>1, <3>2, Zenon DEF SocketsOK
  <2>5. \A s \in Sockets : /\ sockets'[s].client = sockets[s].client
                           /\ sockets[s].client \in Clients
    BY <2>0, <2>2, SocketFacts, Zenon
  <2>7. \A s \in Sockets : /\ ConnectEvent(s) \in events' <=> ConnectEvent(s) \in events
                           /\ \A t : CloseEvent(t, s) \in events' <=> CloseEvent(t, s) \in events
    <3>1. \A s \in Sockets : s # n
      BY <2>2, Zenon
    <3> QED
      BY <2>1, <3>1, EventFacts
  <2>8. \A t : CloseEvent(t, n) \notin events'
    <3>1. ASSUME NEW t, CloseEvent(t, n) \in events PROVE FALSE
      <4>1. PICK s \in Sockets :
              CloseEvent(t, n) \in {ConnectEvent(s), CloseEvent("client", s),
                CloseEvent("server", s)}
        BY <2>0, <3>1, Zenon DEF SocketsOK
      <4> QED
        BY <2>2, <4>1, EventFacts
    <3>2. \A t : CloseEvent(t, n) # ConnectEvent(n)
      BY EventFacts, Zenon
    <3> QED
      BY <2>1, <3>1, <3>2, Zenon
  <2>9. ChannelInv'
    <3>1. ASSUME NEW x \in Clients, channel'[x] # 0
          PROVE  /\ sockets'[channel'[x]].client = x
                 /\ \A r \in Sockets' : sockets'[r].client = x => r <= channel'[x]
      <4>1. CASE x = c
        <5>1. n <= n
          BY <2>2
        <5> QED
          BY <2>2, <2>3, <4>1, <5>1, Zenon
      <4>2. CASE x # c
        <5>1. channel'[x] = channel[x] /\ channel[x] \in Sockets
          BY <2>0, <2>3, <3>1, <4>2, SocketFacts, Zenon
        <5>2. /\ sockets[channel[x]].client = x
              /\ \A r \in Sockets : sockets[r].client = x => r <= channel[x]
          BY <3>1, <5>1, Zenon DEF SocketInv, ChannelInv
        <5> QED
          BY <2>2, <4>2, <5>1, <5>2, Zenon
      <4> QED
        BY <4>1, <4>2, Zenon
    <3>3. ASSUME NEW s \in Sockets', NEW t \in {"client", "server"}, CloseEvent(t, s) \in events'
          PROVE  ~sockets'[s].live
      BY <2>2, <2>7, <2>8, <3>3, Zenon DEF SocketInv, ChannelInv
    <3> QED
      BY <3>1, <3>3, Zenon DEF ChannelInv
  <2>10. ServerInv'
    <3>1. ASSUME NEW x \in Clients, serverMap'[x] # 0 PROVE sockets'[serverMap'[x]].client = x
      <4>1. serverMap[x] \in Sockets
        BY <3>1, SocketFacts, Zenon DEF SocketInv
      <4>2. sockets[serverMap[x]].client = x
        BY <3>1, Zenon DEF SocketInv, ServerInv
      <4>3. sockets'[serverMap[x]] = sockets[serverMap[x]]
        BY <2>2, <4>1, Zenon
      <4> QED
        BY <4>2, <4>3, Zenon
    <3>2. ASSUME NEW x \in Clients, channel'[x] # 0, sockets'[channel'[x]].live,
                 ConnectEvent(channel'[x]) \notin events'
          PROVE  /\ serverMap'[x] = channel'[x]
                 /\ \A r \in Sockets' : sockets'[r].client = x => ConnectEvent(r) \notin events'
      <4>1. x # c
        <5>1. ConnectEvent(n) \in events'
          BY <2>1, Zenon
        <5>2. x = c => ConnectEvent(channel'[x]) = ConnectEvent(n)
          BY <2>3, Zenon
        <5> QED
          BY <3>2, <5>1, <5>2, Zenon
      <4>2. channel'[x] = channel[x] /\ channel[x] \in Sockets
        BY <2>0, <2>3, <3>2, <4>1, SocketFacts, Zenon
      <4>3. sockets[channel[x]].live /\ ConnectEvent(channel[x]) \notin events
        BY <2>2, <2>7, <3>2, <4>2, Zenon
      <4>4. /\ serverMap[x] = channel[x]
            /\ \A r \in Sockets : sockets[r].client = x => ConnectEvent(r) \notin events
        BY <3>2, <4>2, <4>3, Zenon DEF SocketInv, ServerInv
      <4> QED
        BY <2>2, <2>7, <4>1, <4>2, <4>4, Zenon
    <3>3. ASSUME NEW s \in Sockets', ~sockets'[s].live, CloseEvent("server", s) \notin events'
          PROVE  ConnectEvent(s) \notin events' /\ serverMap'[sockets'[s].client] # s
      BY <2>2, <2>7, <3>3, Zenon DEF SocketInv, ServerInv
    <3> QED
      BY <3>1, <3>2, <3>3, Zenon DEF ServerInv
  <2> QED
    BY <2>4, <2>9, <2>10, Zenon DEF SocketInv
<1> QED
  BY <1>1, <1>2, Zenon

(* A socket ends: the server is told if it was live.                       *)
LEMMA EndStep ==
  ASSUME SocketInv, NEW s \in Sockets, sockets' = [sockets EXCEPT ![s].live = FALSE],
         NEW T \in SUBSET {"client", "server"}, sockets[s].live => "server" \in T,
         events' = events \cup {CloseEvent(t, s) : t \in T}, UNCHANGED <<channel, serverMap>>
  PROVE  SocketInv'
<1>0. SocketsOK
  BY Zenon DEF SocketInv
<1>1. /\ sockets' \in Seq([client : Clients, live : BOOLEAN])
      /\ Len(sockets') = Len(sockets) /\ Sockets' = Sockets /\ ~sockets'[s].live
      /\ \A r \in Sockets : sockets'[r].client = sockets[r].client
      /\ \A r \in Sockets \ {s} : sockets'[r].live = sockets[r].live
  BY <1>0, DeadSocket, Zenon
<1>2. \A r \in Sockets : ConnectEvent(r) \in events' <=> ConnectEvent(r) \in events
  BY EventFacts
<1>3. \A r \in Sockets \ {s}, t \in {"client", "server"} :
        CloseEvent(t, r) \in events' <=> CloseEvent(t, r) \in events
  BY EventFacts
<1>4. /\ CloseEvent("server", s) \in events => CloseEvent("server", s) \in events'
      /\ sockets[s].live => CloseEvent("server", s) \in events'
  BY Zenon
<1>5. SocketsOK'
  <2>1. \A e \in events' : \E r \in Sockets :
          e \in {ConnectEvent(r), CloseEvent("client", r), CloseEvent("server", r)}
    BY <1>0 DEF SocketsOK
  <2>2. /\ channel' \in [Clients -> 0..Len(sockets)]
        /\ serverMap' \in [Clients -> 0..Len(sockets)]
    BY <1>0, Zenon DEF SocketsOK
  <2> QED
    BY <1>1, <2>1, <2>2, Zenon DEF SocketsOK
<1>6. ChannelInv'
  <2>1. ASSUME NEW x \in Clients, channel'[x] # 0
        PROVE  /\ sockets'[channel'[x]].client = x
               /\ \A r \in Sockets : sockets'[r].client = x => r <= channel'[x]
    <3>1. channel[x] \in Sockets
      BY <1>0, <2>1, SocketFacts, Zenon
    <3>2. /\ sockets[channel[x]].client = x
          /\ \A r \in Sockets : sockets[r].client = x => r <= channel[x]
      BY <2>1, Zenon DEF SocketInv, ChannelInv
    <3> QED
      BY <1>1, <3>1, <3>2, Zenon
  <2>3. ASSUME NEW r \in Sockets, NEW t \in {"client", "server"}, CloseEvent(t, r) \in events'
        PROVE  ~sockets'[r].live
    BY <1>1, <1>3, <2>3 DEF SocketInv, ChannelInv
  <2> QED
    BY <1>1, <2>1, <2>3, Zenon DEF ChannelInv
<1>7. ServerInv'
  <2>1. ASSUME NEW x \in Clients, serverMap'[x] # 0 PROVE sockets'[serverMap'[x]].client = x
    BY <1>0, <1>1, <2>1, SocketFacts, Zenon DEF SocketInv, ServerInv
  <2>2. ASSUME NEW x \in Clients, channel'[x] # 0, sockets'[channel'[x]].live,
               ConnectEvent(channel'[x]) \notin events'
        PROVE  /\ serverMap'[x] = channel'[x]
               /\ \A q \in Sockets : sockets'[q].client = x => ConnectEvent(q) \notin events'
    <3>1. channel[x] \in Sockets /\ channel[x] # s
      BY <1>0, <1>1, <2>2, SocketFacts, Zenon
    <3>2. sockets[channel[x]].live /\ ConnectEvent(channel[x]) \notin events
      BY <1>1, <1>2, <2>2, <3>1, Zenon
    <3>3. /\ serverMap[x] = channel[x]
          /\ \A q \in Sockets : sockets[q].client = x => ConnectEvent(q) \notin events
      BY <2>2, <3>2, Zenon DEF SocketInv, ServerInv
    <3> QED
      BY <1>1, <1>2, <3>3, Zenon
  <2>3. ASSUME NEW r \in Sockets, ~sockets'[r].live, CloseEvent("server", r) \notin events'
        PROVE  ConnectEvent(r) \notin events' /\ serverMap'[sockets'[r].client] # r
    BY <1>1, <1>2, <1>3, <1>4, <2>3 DEF SocketInv, ServerInv
  <2> QED
    BY <1>1, <2>1, <2>2, <2>3, Zenon DEF ServerInv
<1> QED
  BY <1>5, <1>6, <1>7, Zenon DEF SocketInv

LEMMA DestroyStep ==
  ASSUME SocketInv, NEW c \in Clients, Control!DestroyClientChannel(c)
  PROVE  SocketInv'
<1>1. channel' = [channel EXCEPT ![c] = 0] /\ UNCHANGED <<sockets, events, serverMap>>
  BY Zenon DEF Control!DestroyClientChannel, Control!server
<1>2. /\ channel' \in [Clients -> 0..Len(sockets)]
      /\ \A x \in Clients : channel'[x] # 0 => channel'[x] = channel[x]
  BY <1>1 DEF SocketInv, SocketsOK
<1>3. Sockets' = Sockets
  BY <1>1, Zenon DEF Sockets
<1>4. SocketsOK'
  BY <1>1, <1>2, <1>3, Zenon DEF SocketInv, SocketsOK
<1>5. ChannelInv'
  BY <1>1, <1>2, <1>3, Zenon DEF SocketInv, ChannelInv
<1>6. ServerInv'
  BY <1>1, <1>2, <1>3, Zenon DEF SocketInv, ServerInv
<1> QED
  BY <1>4, <1>5, <1>6, Zenon DEF SocketInv

LEMMA ShutdownStep ==
  ASSUME SocketInv, NEW s \in DOMAIN sockets, Control!Shutdown(s)
  PROVE  SocketInv'
<1>1. s \in Sockets
  BY DEF SocketInv, SocketsOK, Sockets
<1>2. /\ sockets' = [sockets EXCEPT ![s].live = FALSE] /\ UNCHANGED <<channel, serverMap>>
      /\ events' = IF sockets[s].live THEN events \cup {CloseEvent("server", s)} ELSE events
  BY Zenon DEF Control!Shutdown, CloseEvent, Control!server
<1> DEFINE T == IF sockets[s].live THEN {"server"} ELSE {}
<1>3. T \in SUBSET {"client", "server"} /\ (sockets[s].live => "server" \in T)
  BY Zenon
<1>4. events' = events \cup {CloseEvent(t, s) : t \in T}
  BY <1>2
<1> HIDE DEF T
<1> QED
  BY <1>1, <1>2, <1>3, <1>4, EndStep, Zenon

LEMMA BreakStep ==
  ASSUME SocketInv, NEW s, Control!LinkBreaks(s)
  PROVE  SocketInv'
<1>1. s \in Sockets
  BY DEF Control!LinkBreaks, SocketInv, SocketsOK, Sockets
<1>2. /\ sockets' = [sockets EXCEPT ![s].live = FALSE] /\ UNCHANGED <<channel, serverMap>>
      /\ events' = events \cup {CloseEvent(t, s) : t \in {"client", "server"}}
  BY Zenon DEF Control!LinkBreaks, CloseEvent, Control!client, Control!server
<1> PICK T : T = {"client", "server"}
  BY Zenon
<1>4. T \in SUBSET {"client", "server"} /\ "server" \in T
  BY Zenon
<1>5. events' = events \cup {CloseEvent(t, s) : t \in T}
  BY <1>2, Zenon
<1> QED
  BY <1>1, <1>2, <1>4, <1>5, EndStep, Zenon

LEMMA ConnectStep ==
  ASSUME SocketInv, NEW e \in events, Control!OnSocketConnected(e)
  PROVE  SocketInv'
<1>0. SocketsOK
  BY Zenon DEF SocketInv
<1>1. PICK s \in Sockets : e = ConnectEvent(s)
  <2>1. \A s : \A t : CloseEvent(t, s).kind # "connected"
    BY DEF CloseEvent
  <2> QED
    BY <1>0, <2>1, Zenon DEF SocketsOK, Control!OnSocketConnected
<1>2. e.sock = s /\ e.to = "server" /\ e.kind = "connected"
  BY <1>1 DEF ConnectEvent
<1>3. /\ serverMap' = [serverMap EXCEPT ![sockets[s].client] = s] /\
           events' = events \ {ConnectEvent(s)}
      /\ UNCHANGED <<channel, sockets>>
  BY <1>1, <1>2, Zenon DEF Control!OnSocketConnected, Control!client
<1>4. ASSUME NEW q \in Sockets, sockets[q].client = sockets[s].client, ConnectEvent(q) \in events
      PROVE  q >= s
  <2>1. ConnectEvent(q).sock = q /\ ConnectEvent(q).to = "server" /\
          ConnectEvent(q).kind = "connected"
    BY DEF ConnectEvent
  <2>2. e.kind # "closed"
    BY <1>2
  <2> QED
    BY <1>2, <1>4, <2>1, <2>2, Zenon DEF Control!OnSocketConnected, Control!Deliverable
<1>5. /\ sockets[s].client \in Clients /\ serverMap'[sockets[s].client] = s
      /\ \A x \in Clients \ {sockets[s].client} : serverMap'[x] = serverMap[x]
  BY <1>0, <1>3, SocketFacts, Zenon DEF SocketsOK
<1>6. /\ \A q \in Sockets \ {s} : ConnectEvent(q) \in events' <=> ConnectEvent(q) \in events
      /\ ConnectEvent(s) \notin events'
      /\ \A q, t : CloseEvent(t, q) \in events' <=> CloseEvent(t, q) \in events
  BY <1>3, EventFacts
<1>7. Sockets' = Sockets
  BY <1>3, Zenon DEF Sockets
<1>8. SocketsOK'
  <2>1. serverMap' \in [Clients -> 0..Len(sockets)]
    <3>1. s \in 0..Len(sockets)
      BY <1>0 DEF SocketsOK, Sockets
    <3> QED
      BY <1>0, <1>3, <3>1, Zenon DEF SocketsOK
  <2> QED
    BY <1>0, <1>3, <1>7, <2>1, Zenon DEF SocketsOK
<1>9. ChannelInv'
  BY <1>3, <1>6, <1>7, Zenon DEF SocketInv, ChannelInv
<1>10. ServerInv'
  <2>1. ASSUME NEW x \in Clients, serverMap'[x] # 0 PROVE sockets'[serverMap'[x]].client = x
    BY <1>3, <1>5, <2>1, Zenon DEF SocketInv, ServerInv
  <2>2. ASSUME NEW x \in Clients, channel[x] # 0, sockets[channel[x]].live,
               ConnectEvent(channel[x]) \notin events'
        PROVE  /\ serverMap'[x] = channel[x]
               /\ \A q \in Sockets : sockets[q].client = x => ConnectEvent(q) \notin events'
    <3>0. /\ channel[x] \in Sockets /\ sockets[channel[x]].client = x
          /\ \A q \in Sockets : sockets[q].client = x => q <= channel[x]
      BY <1>0, <2>2, SocketFacts, Zenon DEF SocketInv, ChannelInv
    <3>1. CASE channel[x] = s
      <4>1. ASSUME NEW q \in Sockets, sockets[q].client = x, ConnectEvent(q) \in events' PROVE FALSE
        <5>1. ConnectEvent(q) \in events /\ q # s
          BY <1>6, <4>1, Zenon
        <5>2. q >= s
          BY <1>4, <3>0, <3>1, <4>1, <5>1, Zenon
        <5>3. q <= s
          BY <3>0, <3>1, <4>1, Zenon
        <5> QED
          BY <5>1, <5>2, <5>3 DEF Sockets
      <4> QED
        BY <1>5, <3>0, <3>1, <4>1, Zenon
    <3>2. CASE channel[x] # s
      <4>1. ConnectEvent(channel[x]) \notin events
        BY <1>6, <2>2, <3>0, <3>2, Zenon
      <4>2. /\ serverMap[x] = channel[x]
            /\ \A q \in Sockets : sockets[q].client = x => ConnectEvent(q) \notin events
        BY <2>2, <4>1, Zenon DEF SocketInv, ServerInv
      <4>3. x # sockets[s].client
        BY <1>1, <4>2, Zenon
      <4> QED
        BY <1>3, <1>5, <4>2, <4>3
    <3> QED
      BY <3>1, <3>2, Zenon
  <2>3. ASSUME NEW r \in Sockets, ~sockets[r].live, CloseEvent("server", r) \notin events'
        PROVE  ConnectEvent(r) \notin events' /\ serverMap'[sockets[r].client] # r
    <3>1. ConnectEvent(r) \notin events /\ serverMap[sockets[r].client] # r
      BY <1>6, <2>3, Zenon DEF SocketInv, ServerInv
    <3>2. r # s /\ sockets[r].client \in Clients
      BY <1>0, <1>1, <3>1, SocketFacts, Zenon
    <3> QED
      BY <1>5, <1>6, <3>1, <3>2, Zenon
  <2> QED
    BY <1>3, <1>7, <2>1, <2>2, <2>3, Zenon DEF ServerInv
<1> QED
  BY <1>8, <1>9, <1>10, Zenon DEF SocketInv

LEMMA CloseStep ==
  ASSUME SocketInv, NEW e \in events, Control!OnSocketClosed(e)
  PROVE  SocketInv'
<1>0. SocketsOK
  BY Zenon DEF SocketInv
<1>1. PICK s \in Sockets, t \in {"client", "server"} : e = CloseEvent(t, s)
  <2>1. \A s : ConnectEvent(s).kind # "closed"
    BY DEF ConnectEvent
  <2> QED
    BY <1>0, <2>1, Zenon DEF SocketsOK, Control!OnSocketClosed
<1>2. e.sock = s /\ e.to = t /\ e.kind = "closed"
  BY <1>1 DEF CloseEvent
<1>3. /\ events' = events \ {CloseEvent(t, s)} /\ sockets' = sockets
      /\ ~sockets[s].live
  BY <1>1, <1>2, Zenon DEF Control!OnSocketClosed, SocketInv, ChannelInv
<1>4. /\ \A q : ConnectEvent(q) \in events' <=> ConnectEvent(q) \in events
      /\ \A q, u : CloseEvent(u, q) \in events' => CloseEvent(u, q) \in events
      /\ \A q, u : q # s \/ u # t => (CloseEvent(u, q) \in events' <=> CloseEvent(u, q) \in events)
  BY <1>3, EventFacts
<1>5. Sockets' = Sockets
  BY <1>3, Zenon DEF Sockets
<1>6. \A m : m \in [Clients -> 0..Len(sockets)] =>
        /\ Control!SocketDropped(m, s) \in [Clients -> 0..Len(sockets)]
        /\ \A x \in Clients : Control!SocketDropped(m, s)[x] = IF m[x] = s THEN 0 ELSE m[x]
  <2>1. 0 \in 0..Len(sockets)
    BY <1>0 DEF SocketsOK
  <2> QED
    BY <2>1, Zenon DEF Control!SocketDropped
<1>7. CASE t = "client"
  <2>1. channel' = Control!SocketDropped(channel, s) /\ UNCHANGED serverMap
    BY <1>2, <1>7, Zenon DEF Control!OnSocketClosed
  <2>2. /\ channel' \in [Clients -> 0..Len(sockets)]
        /\ \A x \in Clients : channel'[x] = IF channel[x] = s THEN 0 ELSE channel[x]
    BY <1>0, <1>6, <2>1, Zenon DEF SocketsOK
  <2>3. SocketsOK'
    BY <1>0, <1>3, <1>5, <2>1, <2>2, Zenon DEF SocketsOK
  <2>4. ChannelInv'
    <3>1. \A x \in Clients : channel'[x] # 0 =>
            /\ sockets[channel'[x]].client = x
            /\ \A r \in Sockets : sockets[r].client = x => r <= channel'[x]
      BY <2>2, Zenon DEF SocketInv, ChannelInv
    <3>3. \A r \in Sockets, u \in {"client", "server"} : CloseEvent(u, r) \in events' =>
            ~sockets[r].live
      BY <1>4, Zenon DEF SocketInv, ChannelInv
    <3> QED
      BY <1>3, <1>5, <3>1, <3>3, Zenon DEF ChannelInv
  <2>5. "server" # t
    BY <1>7
  <2>6. \A r : CloseEvent("server", r) \in events' <=> CloseEvent("server", r) \in events
    BY <1>4, <2>5, Zenon
  <2>7. ServerInv'
    <3>1. \A x \in Clients : channel'[x] # 0 => channel'[x] = channel[x]
      BY <2>2, Zenon
    <3> QED
      BY <1>3, <1>4, <1>5, <2>1, <2>6, <3>1, Zenon DEF SocketInv, ServerInv
  <2> QED
    BY <2>3, <2>4, <2>7, Zenon DEF SocketInv
<1>8. CASE t = "server"
  <2>1. serverMap' = Control!SocketDropped(serverMap, s) /\ UNCHANGED channel
    <3>1. e.to # "client"
      BY <1>2, <1>8
    <3> QED
      BY <1>2, <3>1, Zenon DEF Control!OnSocketClosed
  <2>2. /\ serverMap' \in [Clients -> 0..Len(sockets)]
        /\ \A x \in Clients : serverMap'[x] = IF serverMap[x] = s THEN 0 ELSE serverMap[x]
    BY <1>0, <1>6, <2>1, Zenon DEF SocketsOK
  <2>3. SocketsOK'
    BY <1>0, <1>3, <1>5, <2>1, <2>2, Zenon DEF SocketsOK
  <2>4. ChannelInv'
    BY <1>3, <1>4, <1>5, <2>1, Zenon DEF SocketInv, ChannelInv
  <2>5. ConnectEvent(s) \notin events
    <3>1. /\ ConnectEvent(s).kind = "connected" /\ ConnectEvent(s).sock = s
          /\ ConnectEvent(s).to = "server"
      BY DEF ConnectEvent
    <3> QED
      BY <1>2, <1>8, <3>1, Zenon DEF Control!OnSocketClosed, Control!Deliverable
  <2>6. ServerInv'
    <3>1. \A x \in Clients : serverMap'[x] # 0 => sockets'[serverMap'[x]].client = x
      BY <1>3, <2>2, Zenon DEF SocketInv, ServerInv
    <3>2. ASSUME NEW x \in Clients, channel[x] # 0, sockets[channel[x]].live,
                 ConnectEvent(channel[x]) \notin events'
          PROVE  /\ serverMap'[x] = channel[x]
                 /\ \A q \in Sockets : sockets[q].client = x => ConnectEvent(q) \notin events'
      <4>1. /\ serverMap[x] = channel[x]
            /\ \A q \in Sockets : sockets[q].client = x => ConnectEvent(q) \notin events
        BY <1>4, <3>2, Zenon DEF SocketInv, ServerInv
      <4>2. channel[x] # s
        BY <1>3, <3>2, Zenon
      <4> QED
        BY <1>4, <2>2, <4>1, <4>2, Zenon
    <3>3. ASSUME NEW r \in Sockets, ~sockets[r].live, CloseEvent("server", r) \notin events'
          PROVE  ConnectEvent(r) \notin events' /\ serverMap'[sockets[r].client] # r
      <4>1. r # 0 /\ sockets[r].client \in Clients
        BY <1>0, SocketFacts, Zenon
      <4>2. CASE r = s
        BY <1>4, <2>2, <2>5, <4>1, <4>2, Zenon
      <4>3. CASE r # s
        <5>1. ConnectEvent(r) \notin events /\ serverMap[sockets[r].client] # r
          BY <1>4, <3>3, <4>3, Zenon DEF SocketInv, ServerInv
        <5> QED
          BY <1>4, <2>2, <4>1, <5>1, Zenon
      <4> QED
        BY <4>2, <4>3, Zenon
    <3> QED
      BY <1>3, <1>5, <2>1, <3>1, <3>2, <3>3, Zenon DEF ServerInv
  <2> QED
    BY <2>3, <2>4, <2>6, Zenon DEF SocketInv
<1> QED
  BY <1>1, <1>7, <1>8, Zenon

(***************************************************************************)
(* The messages.                                                           *)
(***************************************************************************)
LEMMA SeqOfMore ==
  ASSUME NEW S, NEW T, S \subseteq T, NEW q \in Seq(S)
  PROVE  q \in Seq(T)
OBVIOUS

LEMMA SeqWithout ==
  ASSUME NEW S, NEW q \in Seq(S), NEW i \in DOMAIN q
  PROVE  SubSeq(q, 1, i - 1) \o SubSeq(q, i + 1, Len(q)) \in Seq(S)
<1>1. SubSeq(q, 1, i - 1) \in Seq(S)
  OBVIOUS
<1>2. SubSeq(q, i + 1, Len(q)) \in Seq(S)
  OBVIOUS
<1> QED
  BY <1>1, <1>2

(* No socket changes its client, and what was sent stays sent.             *)
MoreSent ==
  /\ Sockets \subseteq Sockets' /\ answered \subseteq answered'
  /\ \A s \in Sockets : sockets'[s].client = sockets[s].client

LEMMA RightStays ==
  ASSUME MoreSent
  PROVE  RightOnes \subseteq RightOnes'
<1>1. Messages \subseteq Messages' /\ \A m \in Messages : m.sock \in Sockets
  BY DEF MoreSent, Messages
<1> QED
  BY <1>1, Zenon DEF MoreSent, RightOnes, Right

LEMMA WireStays ==
  ASSUME WireInv, MoreSent, UNCHANGED <<outbox, wire>>
  PROVE  WireInv'
BY RightStays, SeqOfMore, Zenon DEF WireInv

LEMMA SocketsSame ==
  ASSUME UNCHANGED <<sockets, answered>>
  PROVE  MoreSent
BY Zenon DEF MoreSent, Sockets

LEMMA WireShrinks ==
  ASSUME WireInv, NEW i \in DOMAIN wire, wire' = Control!Received(i),
         UNCHANGED <<outbox, sockets, answered>>
  PROVE  WireInv'
<1>1. wire' \in Seq(RightOnes)
  BY SeqWithout, Zenon DEF WireInv, Control!Received
<1>2. RightOnes \subseteq RightOnes'
  BY SocketsSame, RightStays, Zenon
<1> QED
  BY <1>1, <1>2, SeqOfMore, Zenon DEF WireInv

LEMMA LinkSends ==
  ASSUME WireInv, SocketInv, NEW c \in Clients, Control!CreatControlLink(c),
         UNCHANGED <<outbox, wire, answered>>
  PROVE  WireInv'
<1>1. CASE channel[c] # 0
  BY <1>1, SocketsSame, WireStays, Zenon DEF Control!CreatControlLink
<1>2. CASE channel[c] = 0
  <2>1. SocketsOK /\ sockets' = Append(sockets, [client |-> c, live |-> TRUE])
    BY <1>2, Zenon DEF SocketInv, Control!CreatControlLink
  <2>2. MoreSent
    BY <2>1, NewSocket, Zenon DEF MoreSent
  <2> QED
    BY <2>2, WireStays, Zenon
<1> QED
  BY <1>1, <1>2, Zenon

LEMMA EndSends ==
  ASSUME WireInv, SocketInv, NEW s \in Sockets, sockets' = [sockets EXCEPT ![s].live = FALSE],
         UNCHANGED <<outbox, wire, answered>>
  PROVE  WireInv'
<1>1. MoreSent
  BY DeadSocket, Zenon DEF SocketInv, MoreSent
<1> QED
  BY <1>1, WireStays, Zenon

LEMMA PostSends ==
  ASSUME WireInv, WaitInv, NEW c \in Clients, Control!SendRequest(c)
  PROVE  WireInv'
<1>1. [type |-> call[c].type, msg |-> call[c].msg] \in [type : Types, msg : Nat]
  <2>1. call[c] \in Calls
    BY Zenon DEF WaitInv
  <2>2. call[c].type \in Types /\ call[c].msg \in Nat
    BY <2>1, CallFacts, Zenon
  <2> QED
    BY <2>2, Zenon
<1>2. /\ outbox' = [outbox EXCEPT ![c] = Append(@, [type |-> call[c].type, msg |-> call[c].msg])]
      /\ UNCHANGED <<sockets, wire, answered>>
  BY Zenon DEF Control!SendRequest, Control!server
<1>3. outbox' \in [Clients -> Seq([type : Types, msg : Nat])]
  BY <1>1, <1>2, AppendFacts DEF WireInv
<1>4. RightOnes \subseteq RightOnes'
  BY <1>2, SocketsSame, RightStays, Zenon
<1> QED
  BY <1>2, <1>3, <1>4, SeqOfMore, Zenon DEF WireInv

LEMMA BytesSent ==
  ASSUME WireInv, SocketInv, NEW c \in Clients, Control!DoSendBytesAsync(c)
  PROVE  WireInv'
<1> PICK q : q = outbox[c]
  OBVIOUS
<1>1. q \in Seq([type : Types, msg : Nat]) /\ q # <<>> /\ outbox' = [outbox EXCEPT ![c] = Tail(q)]
  BY Zenon DEF WireInv, Control!DoSendBytesAsync
<1>2. Tail(q) \in Seq([type : Types, msg : Nat]) /\ Head(q) \in [type : Types, msg : Nat]
  BY <1>1, TailFacts, Zenon
<1>3. outbox' \in [Clients -> Seq([type : Types, msg : Nat])]
  BY <1>1, <1>2, Zenon DEF WireInv
<1>4. RightOnes \subseteq RightOnes'
  BY SocketsSame, RightStays, Zenon DEF Control!DoSendBytesAsync, Control!server
<1> DEFINE m == [to |-> "server", sock |-> channel[c], type |-> Head(q).type, msg |-> Head(q).msg,
                 body |-> Control!NoAnswer]
<1>5. CASE Control!Live(channel[c])
  <2>1. channel[c] \in Sockets
    BY <1>5, SocketFacts, Zenon DEF Control!Live, SocketInv
  <2>2. m \in RightOnes
    BY <1>2, <2>1 DEF RightOnes, Right, Messages, Answers
  <2>3. wire' = Append(wire, m)
    BY <1>5, Zenon DEF Control!DoSendBytesAsync
  <2> HIDE DEF m
  <2>4. wire' \in Seq(RightOnes)
    BY <2>2, <2>3, AppendFacts, Zenon DEF WireInv
  <2> QED
    BY <1>3, <1>4, <2>4, SeqOfMore, Zenon DEF WireInv
<1>6. CASE ~Control!Live(channel[c])
  <2>1. wire' = wire
    BY <1>6, Zenon DEF Control!DoSendBytesAsync
  <2> QED
    BY <1>3, <1>4, <2>1, SeqOfMore, Zenon DEF WireInv
<1> QED
  BY <1>5, <1>6, Zenon

(* The server's answer is recorded with the request and the client it      *)
(* goes to.                                                                *)
LEMMA RequestHandled ==
  ASSUME WireInv, NEW i, Control!HandleRequest(i)
  PROVE  WireInv' /\ answered \subseteq answered'
<1> DEFINE m == wire[i]
           body == Control!CheckAllowConnect(Control!IdOf(m.sock))
           r == [m EXCEPT !.to = "client", !.type = "response", !.body = body]
<1>1. i \in DOMAIN wire /\ UNCHANGED <<outbox, sockets>>
  BY Zenon DEF Control!HandleRequest, Control!client
<1>2. CASE wire' = Control!Received(i) /\ UNCHANGED answered
  BY <1>1, <1>2, WireShrinks, Zenon
<1>3. CASE /\ wire' = Append(Control!Received(i), r)
           /\ answered' = answered \cup {<<sockets[m.sock].client, m.msg, body>>}
  <2>1. m \in Messages
    BY <1>1 DEF WireInv, RightOnes
  <2>2. body \in Answers
    BY DEF Control!CheckAllowConnect, Answers
  <2> HIDE DEF body
  <2>3. r \in Messages /\ r.msg = m.msg /\ r.sock = m.sock /\ r.body = body
    BY <2>1, <2>2 DEF Messages, Types
  <2> HIDE DEF r, m
  <2>4. MoreSent
    BY <1>1, <1>3, Zenon DEF MoreSent, Sockets
  <2>5. RightOnes \subseteq RightOnes' /\ Messages' = Messages
    BY <1>1, <2>4, RightStays, Zenon DEF Messages, Sockets
  <2>6. r \in RightOnes'
    BY <1>1, <1>3, <2>3, <2>5, Zenon DEF RightOnes, Right
  <2>7. Control!Received(i) \in Seq(RightOnes')
    BY <1>1, <2>5, SeqWithout, SeqOfMore, Zenon DEF WireInv, Control!Received
  <2>8. wire' \in Seq(RightOnes')
    BY <1>3, <2>6, <2>7, AppendFacts, Zenon
  <2> QED
    BY <1>1, <1>3, <2>8, Zenon DEF WireInv
<1> QED
  BY <1>2, <1>3, Zenon DEF Control!HandleRequest

(***************************************************************************)
(* The theorems.                                                           *)
(***************************************************************************)
AnswerInv == WaitInv /\ WireInv

LEMMA InitInv ==
  ASSUME Control!Init
  PROVE  AnswerInv /\ SocketInv
<1>1. WaitInv
  <2>1. Control!Free \in Calls /\ Control!Free.at # "wait" /\ Control!Free.got = Control!NoAnswer
    BY DEF Control!Free, Calls, Types, Answers
  <2>2. call \in [Clients -> Calls] /\ DOMAIN waiters = Clients /\ msgs \in [Clients -> Nat]
    BY <2>1 DEF Control!Init
  <2>3. \A c \in Clients : Waits(c) /\ Sent(c, call[c].msg, call[c].got)
    BY <2>1, Zenon DEF Control!Init, Waits, Sent
  <2> QED
    BY <2>2, <2>3, Zenon DEF WaitInv
<1>2. WireInv
  <2>1. <<>> \in Seq([type : Types, msg : Nat]) /\ <<>> \in Seq(RightOnes)
    OBVIOUS
  <2> QED
    BY <2>1, Zenon DEF Control!Init, WireInv
<1>3. SocketInv
  <2>1. sockets \in Seq([client : Clients, live : BOOLEAN]) /\ Sockets = {} /\ 0 \in 0..Len(sockets)
    BY DEF Control!Init, Sockets
  <2>2. SocketsOK
    BY <2>1, Zenon DEF Control!Init, SocketsOK
  <2>3. ChannelInv
    BY <2>1, Zenon DEF Control!Init, ChannelInv
  <2>4. ServerInv
    BY <2>1, Zenon DEF Control!Init, ServerInv
  <2> QED
    BY <2>2, <2>3, <2>4, Zenon DEF SocketInv
<1> QED
  BY <1>1, <1>2, <1>3, Zenon DEF AnswerInv

(* A step that changes neither messages nor calls.                         *)
LEMMA AnswersStay ==
  ASSUME AnswerInv, UNCHANGED <<waiters, call, msgs, outbox, wire, sockets, answered>>
  PROVE  AnswerInv'
<1>1. WaitInv'
  BY WaitStays, Zenon DEF AnswerInv
<1>2. WireInv'
  BY SocketsSame, WireStays, Zenon DEF AnswerInv
<1> QED
  BY <1>1, <1>2, Zenon DEF AnswerInv

(* The steps of a call.                                                    *)
LEMMA CallKept ==
  ASSUME AnswerInv, SocketInv, NEW c \in Clients,
         \/ \E type \in {"check", "publish", "cancel"} : Control!Request(c, type)
         \/ Control!SendRequest(c) \/ Control!SendRequestFails(c) \/ Control!DoSendBytesAsync(c)
         \/ Control!Answered(c) \/ Control!TimedOut(c) \/ Control!DestroyClientChannel(c)
  PROVE  AnswerInv' /\ SocketInv'
<1>0. WaitInv /\ WireInv
  BY Zenon DEF AnswerInv
<1>1. ASSUME NEW type \in {"check", "publish", "cancel"}, Control!Request(c, type)
      PROVE  AnswerInv' /\ SocketInv'
  <2>1. Control!CreatControlLink(c) /\ UNCHANGED <<outbox, wire, answered, serverMap>>
    BY <1>1, Zenon DEF Control!Request, Control!server
  <2> QED
    BY <1>0, <1>1, <2>1, RequestStep, LinkSends, LinkStep, Zenon DEF AnswerInv
<1>2. CASE Control!SendRequest(c)
  <2>1. UNCHANGED <<channel, sockets, events, serverMap>>
    BY <1>2, Zenon DEF Control!SendRequest, Control!server
  <2> QED
    BY <1>0, <1>2, <2>1, SendStep, PostSends, SocketsStay, Zenon DEF AnswerInv
<1>3. CASE Control!SendRequestFails(c)
  <2>1. UNCHANGED <<channel, sockets, events, serverMap, outbox, wire, answered>>
    BY <1>3, Zenon DEF Control!SendRequestFails, Control!server
  <2> QED
    BY <1>0, <1>3, <2>1, SendStep, SocketsSame, WireStays, SocketsStay, Zenon DEF AnswerInv
<1>4. CASE Control!DoSendBytesAsync(c)
  <2>1. UNCHANGED <<channel, sockets, events, serverMap>> /\ UNCHANGED <<waiters, call, msgs>>
        /\ answered \subseteq answered'
    BY <1>4, Zenon DEF Control!DoSendBytesAsync, Control!server
  <2> QED
    BY <1>0, <1>4, <2>1, WaitStays, BytesSent, SocketsStay, Zenon DEF AnswerInv
<1>5. CASE Control!Answered(c) \/ Control!TimedOut(c)
  <2>1. UNCHANGED <<channel, sockets, events, serverMap, outbox, wire, answered>>
    BY <1>5, Zenon DEF Control!Answered, Control!TimedOut, Control!WaitOver, Control!server
  <2> QED
    BY <1>0, <1>5, <2>1, OverStep, SocketsSame, WireStays, SocketsStay, Zenon DEF AnswerInv
<1>6. CASE Control!DestroyClientChannel(c)
  <2>1. UNCHANGED <<waiters, call, msgs, outbox, wire, sockets, answered>>
    BY <1>6, Zenon DEF Control!DestroyClientChannel, Control!server
  <2> QED
    BY <1>6, <2>1, AnswersStay, DestroyStep, Zenon
<1> QED
  BY <1>1, <1>2, <1>3, <1>4, <1>5, <1>6, Zenon

(* The steps of softbus and the server.                                    *)
LEMMA LinkKeeps ==
  ASSUME AnswerInv, SocketInv,
         \/ \E s \in DOMAIN sockets : Control!LinkBreaks(s) \/ Control!Shutdown(s)
         \/ \E e \in events : Control!OnSocketConnected(e) \/ Control!OnSocketClosed(e)
         \/ \E i \in DOMAIN wire :
              Control!HandleRequest(i) \/ Control!HandleResponse(i) \/ Control!MessageLost(i)
         \/ Control!ClearAllConnect
  PROVE  AnswerInv' /\ SocketInv'
<1>0. WaitInv /\ WireInv /\ DOMAIN sockets = Sockets
  BY DEF AnswerInv, SocketInv, SocketsOK, Sockets
<1>1. ASSUME NEW s \in DOMAIN sockets, Control!LinkBreaks(s) \/ Control!Shutdown(s)
      PROVE  AnswerInv' /\ SocketInv'
  <2>1. /\ sockets' = [sockets EXCEPT ![s].live = FALSE]
        /\ UNCHANGED <<outbox, wire, answered>> /\ UNCHANGED <<waiters, call, msgs>>
        /\ answered \subseteq answered'
    BY <1>1, Zenon DEF Control!LinkBreaks, Control!Shutdown, Control!client, Control!server
  <2> QED
    BY <1>0, <1>1, <2>1, WaitStays, EndSends, BreakStep, ShutdownStep, Zenon DEF AnswerInv
<1>2. ASSUME NEW e \in events, Control!OnSocketConnected(e) PROVE AnswerInv' /\ SocketInv'
  <2>1. UNCHANGED <<waiters, call, msgs, outbox, wire, sockets, answered>>
    BY <1>2, Zenon DEF Control!OnSocketConnected, Control!client
  <2> QED
    BY <1>2, <2>1, AnswersStay, ConnectStep, Zenon
<1>3. ASSUME NEW e \in events, Control!OnSocketClosed(e) PROVE AnswerInv' /\ SocketInv'
  <2>1. UNCHANGED <<waiters, call, msgs, outbox, wire, sockets, answered>>
    BY <1>3, Zenon DEF Control!OnSocketClosed
  <2> QED
    BY <1>3, <2>1, AnswersStay, CloseStep, Zenon
<1>4. ASSUME NEW i \in DOMAIN wire, Control!HandleRequest(i) PROVE AnswerInv' /\ SocketInv'
  <2>1. UNCHANGED <<channel, sockets, events, serverMap>> /\ UNCHANGED <<waiters, call, msgs>>
    BY <1>4, Zenon DEF Control!HandleRequest, Control!client
  <2> QED
    BY <1>0, <1>4, <2>1, RequestHandled, WaitStays, SocketsStay, Zenon DEF AnswerInv
<1>5. ASSUME NEW i \in DOMAIN wire, Control!HandleResponse(i) PROVE AnswerInv' /\ SocketInv'
  <2>1. /\ UNCHANGED <<channel, sockets, events, serverMap>> /\ UNCHANGED <<outbox, answered>>
        /\ wire' = Control!Received(i)
    BY <1>5, Zenon DEF Control!HandleResponse, Control!server
  <2> QED
    BY <1>0, <1>5, <2>1, AnswerStep, WireShrinks, SocketsStay, Zenon DEF AnswerInv
<1>6. ASSUME NEW i \in DOMAIN wire, Control!MessageLost(i) PROVE AnswerInv' /\ SocketInv'
  <2>1. /\ UNCHANGED <<channel, sockets, events, serverMap>> /\ UNCHANGED <<outbox, answered>>
        /\ UNCHANGED <<waiters, call, msgs>> /\ answered \subseteq answered'
        /\ wire' = Control!Received(i)
    BY <1>6, Zenon DEF Control!MessageLost, Control!client, Control!server
  <2> QED
    BY <1>0, <2>1, WaitStays, WireShrinks, SocketsStay, Zenon DEF AnswerInv
<1>7. CASE Control!ClearAllConnect
  <2>1. /\ UNCHANGED <<waiters, call, msgs, outbox, wire, sockets, answered>>
        /\ UNCHANGED <<channel, sockets, events, serverMap>>
    BY <1>7, Zenon DEF Control!ClearAllConnect, Control!client
  <2> QED
    BY <2>1, AnswersStay, SocketsStay, Zenon
<1> QED
  BY <1>1, <1>2, <1>3, <1>4, <1>5, <1>6, <1>7, Zenon

LEMMA InvKept ==
  ASSUME AnswerInv, SocketInv, [Control!Next]_Control!vars
  PROVE  AnswerInv' /\ SocketInv'
<1>1. CASE UNCHANGED Control!vars
  <2>1. /\ UNCHANGED <<waiters, call, msgs, outbox, wire, sockets, answered>>
        /\ UNCHANGED <<channel, sockets, events, serverMap>>
    BY <1>1, Zenon DEF Control!vars, Control!client, Control!server
  <2> QED
    BY <2>1, AnswersStay, SocketsStay, Zenon
<1> QED
  BY <1>1, CallKept, LinkKeeps, Zenon DEF Control!Next

(* However late answers come, calls give up and channels are destroyed     *)
(* under a call: what a call returns, or its waiter holds, the server sent *)
(* as the answer to that very request of this client.                      *)
THEOREM AnswersMatchThm == Control!Spec => []Control!AnswersMatch
<1>1. AnswerInv => Control!AnswersMatch
  <2> SUFFICES ASSUME WaitInv, NEW c \in Clients
               PROVE  /\ call[c].got # Control!NoAnswer => <<c, call[c].msg, call[c].got>> \in answered
                      /\ \A w \in waiters[c] :
                           /\ call[c].at = "wait" /\ w.msg = call[c].msg
                           /\ w.response # Control!NoAnswer => <<c, w.msg, w.response>> \in answered
    BY Zenon DEF AnswerInv, Control!AnswersMatch
  <2>1. Waits(c) /\ Sent(c, call[c].msg, call[c].got)
    BY Zenon DEF WaitInv
  <2>2. \A m, r : Waiter(m, r).msg = m /\ Waiter(m, r).response = r
    BY DEF Waiter
  <2>3. call[c].got # Control!NoAnswer => <<c, call[c].msg, call[c].got>> \in answered
    BY <2>1, Zenon DEF Sent
  <2>4. ASSUME NEW w \in waiters[c]
        PROVE  /\ call[c].at = "wait" /\ w.msg = call[c].msg
               /\ w.response # Control!NoAnswer => <<c, w.msg, w.response>> \in answered
    <3>1. call[c].at = "wait"
      BY <2>1, <2>4, Zenon DEF Waits
    <3>2. PICK r \in Answers : waiters[c] = {Waiter(call[c].msg, r)} /\ Sent(c, call[c].msg, r)
      BY <2>1, <3>1, Zenon DEF Waits
    <3>3. w = Waiter(call[c].msg, r)
      BY <2>4, <3>2, Zenon
    <3>4. w.msg = call[c].msg /\ w.response = r
      BY <2>2, <3>3, Zenon
    <3> QED
      BY <3>1, <3>2, <3>4, Zenon DEF Sent
  <2> QED
    BY <2>3, <2>4, Zenon
<1> QED
  BY <1>1, InitInv, InvKept, PTL DEF Control!Spec

(* Once the callbacks about a client's sockets are through, the server     *)
(* reaches the client through the socket that the client uses and keeps no *)
(* dead one, in whatever order closes and connects are reported.           *)
THEOREM ServerKnowsTheChannelThm == Control!Spec => []Control!ServerKnowsTheChannel
<1>1. SocketInv => Control!ServerKnowsTheChannel
  <2> SUFFICES ASSUME SocketInv, NEW c \in Clients, ~\E e \in events : sockets[e.sock].client = c
               PROVE  /\ Control!Live(channel[c]) => serverMap[c] = channel[c]
                      /\ serverMap[c] # 0 => Control!Live(serverMap[c])
    BY Zenon DEF Control!ServerKnowsTheChannel
  <2>0. SocketsOK
    BY Zenon DEF SocketInv
  <2>1. ASSUME NEW s \in Sockets, sockets[s].client = c
        PROVE  ConnectEvent(s) \notin events /\ CloseEvent("server", s) \notin events
    <3>1. ConnectEvent(s).sock = s /\ CloseEvent("server", s).sock = s
      BY DEF ConnectEvent, CloseEvent
    <3> QED
      BY <2>1, <3>1, Zenon
  <2>2. ASSUME Control!Live(channel[c]) PROVE serverMap[c] = channel[c]
    <3>1. channel[c] # 0 /\ sockets[channel[c]].live
      BY <2>2, Zenon DEF Control!Live
    <3>2. channel[c] \in Sockets /\ sockets[channel[c]].client = c
      BY <2>0, <3>1, SocketFacts, Zenon DEF SocketInv, ChannelInv
    <3>3. ConnectEvent(channel[c]) \notin events
      BY <2>1, <3>2, Zenon
    <3> QED
      BY <3>1, <3>3, Zenon DEF SocketInv, ServerInv
  <2>3. ASSUME serverMap[c] # 0 PROVE Control!Live(serverMap[c])
    <3>1. serverMap[c] \in Sockets /\ sockets[serverMap[c]].client = c
      BY <2>0, <2>3, SocketFacts, Zenon DEF SocketInv, ServerInv
    <3> QED
      BY <2>1, <2>3, <3>1, Zenon DEF Control!Live, SocketInv, ServerInv
  <2> QED
    BY <2>2, <2>3, Zenon
<1> QED
  BY <1>1, InitInv, InvKept, PTL DEF Control!Spec
=============================================================================
