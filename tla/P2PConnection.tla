---------------------------- MODULE P2PConnection ----------------------------
(***************************************************************************)
(* The connection of distributedfiledaemon to one other device.            *)
(* Applications open and close it (Daemon, ConnectCount); the device       *)
(* manager keeps a record of it and counts the mounts of its documents     *)
(* (DeviceManagerAgent); an actor opens and releases the softbus sessions  *)
(* in the order of its commands (NetworkAgentTemplate, SessionPool); the   *)
(* kernel's hmdfs uses the sessions it was given (KernelTalker).           *)
(***************************************************************************)
EXTENDS Integers, Sequences

CONSTANTS
    Apps,
    Managers,       \* applications with FILE_ACCESS_MANAGER: they mount
    MaxOps, MaxFds, MaxFaults

VARIABLES
    connects,   \* connectList_: app -> [num, listener]; num = 0: no entry
    docs,       \* mountDfsCount_ of the device: [present, of]
    mounted,    \* the storage manager has mounted the documents
    record,     \* cidNetTypeRecord_ of the device: "none", "current" or "old" agent
    queue,      \* commands of the network agent
    pool,       \* usrSpaceSessionPool_: [fd, server]
    kernel,     \* descriptors hmdfs communicates through
    agent,      \* "running", "stopping" (QuitGroup waits, mutex held), "gone"
    pc,         \* thread -> [at, app, clear]
    overlap,    \* two unmounts have been under way at once
    ops, fds, faults

link == <<record, queue, pool, kernel, agent, fds>>
counts == <<connects, docs, mounted, overlap>>
vars == <<counts, link, pc, ops, faults>>

\* ipc: calls under connectMutex_; change: UpdateDfsSwitchStatus; remote:
\* DisconnectByRemote; dm: OnDeviceOffline; death: OnRemoteDied; quit: QuitGroup;
\* actor: the agent.
Threads == {"ipc", "change", "remote", "dm", "death", "quit", "actor"}
Idle == [at |-> "idle", app |-> "none", clear |-> FALSE]
NoEntry == [num |-> 0, listener |-> FALSE]
NoDocs == [present |-> FALSE, of |-> [a \in Apps |-> 0]]
Commands == [do : {"connect", "disconnect", "offline", "closeone", "all", "stop", "get"}, fd : 0..MaxFds]
Do(c) == [do |-> c, fd |-> 0]

TypeOK ==
    /\ connects \in [Apps -> [num : 0..MaxOps, listener : BOOLEAN]]
    /\ docs \in [present : BOOLEAN, of : [Apps -> 0..MaxOps]]
    /\ queue \in Seq(Commands)
    /\ pool \subseteq [fd : 1..MaxFds, server : BOOLEAN] /\ kernel \subseteq 1..MaxFds
    /\ record \in {"none", "current", "old"} /\ agent \in {"running", "stopping", "gone"}

Init ==
    /\ connects = [a \in Apps |-> NoEntry]
    /\ docs = NoDocs /\ mounted = FALSE /\ overlap = FALSE
    /\ record = "none" /\ queue = <<>> /\ pool = {} /\ kernel = {}
    /\ agent = "running" /\ fds = 0
    /\ pc = [t \in Threads |-> Idle]
    /\ ops = 0 /\ faults = 0

Count == ops < MaxOps /\ ops' = ops + 1
Fault == faults < MaxFaults /\ faults' = faults + 1
At(t, where) == pc[t].at = where
Goto(t, where) == pc' = [pc EXCEPT ![t].at = where]
Return(t) == pc' = [pc EXCEPT ![t] = Idle]
CheckCount == \E a \in Apps : connects[a].num > 0
\* mpToNetworksMutex_ is free: OnDeviceOffline and QuitGroup hold it while they wait.
Unlocked == At("dm", "idle") /\ agent # "stopping"

-----------------------------------------------------------------------------
(* ConnectCount                                                            *)

AddConnect(a, l) ==
    [connects EXCEPT ![a] = IF @.num > 0 THEN [@ EXCEPT !.num = @ + 1] ELSE [num |-> 1, listener |-> l]]
\* An application's entry goes whatever its num.
RemoveConnect(a) == [connects EXCEPT ![a] = NoEntry]
RemoveConnectOfDevice == [a \in Apps |-> NoEntry]

-----------------------------------------------------------------------------
(* DeviceManagerAgent: the record of the device, and its mounts            *)

\* An agent takes commands until it is stopped.
Recv(c) == queue' = IF agent = "running" THEN Append(queue, c) ELSE queue
\* A command for the agent of the record.
RecvOfRecord(c) == IF record = "current" THEN Recv(c) ELSE UNCHANGED queue

\* QueryRelatedGroups: a record that is there stays, whatever its agent.
\* IsSupportedDevice may fail before: P2P_FAILED.
QueryRelatedGroups ==
    /\ Unlocked
    /\ \/ /\ record' = IF record = "none" /\ agent = "running" THEN "current" ELSE record
          /\ Goto("ipc", "online") /\ UNCHANGED faults
       \/ Fault /\ UNCHANGED record /\ Goto("ipc", "cleanup")
    /\ UNCHANGED <<queue, pool, kernel, agent, fds>>

\* The mutex is taken again; without a record, P2P_FAILED.
OnDeviceP2POnline ==
    /\ Unlocked /\ At("ipc", "online")
    /\ RecvOfRecord(Do("connect")) /\ Goto("ipc", IF record = "none" THEN "cleanup" ELSE "status")
    /\ UNCHANGED <<counts, record, pool, kernel, agent, fds, ops, faults>>

OnDeviceP2POffline(t) ==
    /\ Unlocked /\ At(t, "offline")
    /\ RecvOfRecord(Do("disconnect")) /\ record' = "none"
    /\ Return(t)
    /\ UNCHANGED <<counts, pool, kernel, agent, fds, ops, faults>>

IncreaseMountDfsCount(a) ==
    [present |-> TRUE, of |-> [docs.of EXCEPT ![a] = @ + 1]]

\* MountDfsDocs: a device that is mounted is only counted once more.
MountDfsDocs ==
    /\ At("ipc", "mount")
    /\ IF docs.present
       THEN docs' = IncreaseMountDfsCount(pc["ipc"].app) /\ Return("ipc")
       ELSE UNCHANGED docs /\ Goto("ipc", "mounting")
    /\ UNCHANGED <<overlap, connects, mounted, link, ops, faults>>

MountAtStorage ==
    /\ At("ipc", "mounting") /\ mounted' = TRUE /\ Goto("ipc", "mounted")
    /\ UNCHANGED <<overlap, connects, docs, link, ops, faults>>

\* Publishes the notification on the other device, then the call returns.
MountCounted ==
    /\ At("ipc", "mounted")
    /\ docs' = IncreaseMountDfsCount(pc["ipc"].app) /\ Return("ipc")
    /\ UNCHANGED <<overlap, connects, mounted, link, ops, faults>>

MountFails ==
    /\ At("ipc", "mounting") /\ Fault
    /\ connects' = RemoveConnect(pc["ipc"].app) /\ Goto("ipc", "cleanup")
    /\ UNCHANGED <<overlap, docs, mounted, link, ops>>

\* Where UMountDfsDocs returns to, by thread; the death thread never unmounts.
After(t) == [ipc |-> "closed", remote |-> "removed", dm |-> "post", actor |-> "idle"][t]

\* UMountDfsCountOnly decides; the storage manager is asked without the mutex.
UMountDfsCountOnly(t) ==
    /\ At(t, "unmount")
    /\ LET a == pc[t].app
           only == ~docs.present \/ (~pc[t].clear /\ docs.of[a] > 1)
       IN /\ docs' = CASE ~docs.present -> docs
                       [] docs.present /\ pc[t].clear -> [docs EXCEPT !.of = [x \in Apps |-> 0]]
                       [] OTHER -> IF only THEN [docs EXCEPT !.of[a] = @ - 1] ELSE docs
          /\ Goto(t, IF only THEN After(t) ELSE "storage")
    /\ overlap' = (overlap \/ \E x \in Threads \ {t} : pc[x].at \in {"storage", "forget"})
    /\ UNCHANGED <<connects, mounted, link, ops, faults>>

UMountAtStorage(t) ==
    /\ At(t, "storage") /\ mounted' = FALSE /\ Goto(t, "forget")
    /\ UNCHANGED <<overlap, connects, docs, link, ops, faults>>

RemoveMountDfsCount(t) ==
    /\ At(t, "forget") /\ docs' = NoDocs /\ Goto(t, After(t))
    /\ UNCHANGED <<overlap, connects, mounted, link, ops, faults>>

\* Mutant: the count is dropped although the storage manager failed.
UnmountFailsForgets(t) ==
    /\ At(t, "storage") /\ mounted /\ Fault
    /\ docs' = NoDocs
    /\ IF t \in {"ipc", "remote"} THEN Return(t) ELSE Goto(t, After(t))
    /\ UNCHANGED <<overlap, connects, mounted, link, ops>>

\* CloseP2PConnectionEx and DisconnectByRemote give up; the others go on.
UMountFails(t) ==
    /\ At(t, "storage") /\ Fault
    /\ IF t \in {"ipc", "remote"} THEN Return(t) ELSE Goto(t, After(t))
    /\ UNCHANGED <<counts, link, ops>>

-----------------------------------------------------------------------------
(* Daemon: calls of applications, one at a time under connectMutex_        *)

Enter(t, where, a, c) == pc' = [pc EXCEPT ![t] = [at |-> where, app |-> a, clear |-> c]]

\* ConnectDfs (no listener, no mount) and OpenP2PConnectionEx.
Connect(a, dfs) ==
    /\ At("ipc", "idle") /\ Count
    /\ Enter("ipc", "count", a, dfs)
    /\ UNCHANGED <<counts, link, faults>>

\* CheckRemoteAllowConnect refuses.
NotAllowed ==
    /\ At("ipc", "count") /\ pc["ipc"].app \in Managers /\ ~pc["ipc"].clear /\ Fault
    /\ Goto("ipc", "cleanup")
    /\ UNCHANGED <<counts, link, ops>>

ConnectionCount ==
    /\ At("ipc", "count")
    /\ IF CheckCount THEN Goto("ipc", "recheck") /\ UNCHANGED <<link, faults>>
       ELSE QueryRelatedGroups
    /\ UNCHANGED <<counts, ops>>

\* RepeatGetConnectionStatus saw a connection of hmdfs.
Connected ==
    /\ pc["ipc"].at \in {"status", "recheck"} /\ kernel # {}
    /\ LET a == pc["ipc"].app
           dfs == pc["ipc"].clear
       IN /\ connects' = AddConnect(a, ~dfs)
          /\ IF a \in Managers /\ ~dfs THEN Goto("ipc", "mount") ELSE Return("ipc")
    /\ UNCHANGED <<overlap, docs, mounted, link, ops, faults>>

\* Its tries are over; ERR_CHECKOUT_COUNT takes the caller's entry away.
NotConnected ==
    /\ pc["ipc"].at \in {"status", "recheck"} /\ kernel = {}
    /\ connects' = IF At("ipc", "recheck") THEN RemoveConnect(pc["ipc"].app) ELSE connects
    /\ Goto("ipc", "cleanup")
    /\ UNCHANGED <<overlap, docs, mounted, link, ops, faults>>

\* DisconnectDfs, and CloseP2PConnectionEx of an application that did not mount.
DisconnectDfs(a) ==
    /\ At("ipc", "idle") /\ Count
    /\ Enter("ipc", "closed", a, FALSE)
    /\ UNCHANGED <<counts, link, faults>>

CloseP2PConnectionEx(a) ==
    /\ a \in Managers /\ At("ipc", "idle") /\ Count
    /\ Enter("ipc", "unmount", a, FALSE)
    /\ UNCHANGED <<counts, link, faults>>

Closed ==
    /\ At("ipc", "closed")
    /\ connects' = RemoveConnect(pc["ipc"].app) /\ Goto("ipc", "cleanup")
    /\ UNCHANGED <<overlap, docs, mounted, link, ops, faults>>

CleanUp(t) ==
    /\ At(t, "cleanup")
    /\ IF CheckCount THEN Return(t) ELSE Goto(t, "offline")
    /\ UNCHANGED <<counts, link, ops, faults>>

-----------------------------------------------------------------------------
(* Daemon and DeviceManagerAgent: events                                   *)

OnRemoteDied(a) ==
    /\ At("death", "idle") /\ Count
    /\ connects[a].num > 0 /\ connects[a].listener
    /\ connects' = RemoveConnect(a)
    /\ Enter("death", "cleanup", a, FALSE)
    /\ UNCHANGED <<overlap, docs, mounted, link, faults>>

\* The switch is off: the entries of the applications that mounted.
UpdateDfsSwitchStatus ==
    /\ At("change", "idle") /\ Count /\ docs.present
    /\ connects' = [a \in Apps |-> IF docs.of[a] > 0 THEN NoEntry ELSE connects[a]]
    /\ Enter("change", "cleanup", "none", FALSE)
    /\ UNCHANGED <<overlap, docs, mounted, link, faults>>

\* The other device disconnects: everything is unmounted, but the entry
\* removed is one of the daemon itself.
DisconnectByRemote ==
    /\ At("remote", "idle") /\ Count
    /\ Enter("remote", "unmount", "none", TRUE)
    /\ UNCHANGED <<counts, link, faults>>

DisconnectedByRemote ==
    /\ At("remote", "removed") /\ Goto("remote", "cleanup")
    /\ UNCHANGED <<counts, link, ops, faults>>

OnDeviceOffline ==
    /\ Unlocked /\ record # "none" /\ Count
    /\ Enter("dm", "unmount", "none", TRUE)
    /\ UNCHANGED <<counts, link, faults>>

OfflinePosted ==
    /\ At("dm", "post")
    /\ RecvOfRecord(Do("offline")) /\ record' = "none" /\ Return("dm")
    /\ UNCHANGED <<counts, pool, kernel, agent, fds, ops, faults>>

\* QuitGroup lets the mutex go after OfflineAllDevice ...
OfflineAllDevice ==
    /\ Unlocked /\ At("quit", "idle") /\ agent = "running" /\ Count
    /\ RecvOfRecord(Do("all")) /\ record' = "none" /\ Enter("quit", "stop", "none", FALSE)
    /\ UNCHANGED <<counts, pool, kernel, agent, fds, faults>>

\* ... and keeps it while StopActor waits for the actor.
QuitGroup ==
    /\ Unlocked /\ agent = "running" /\ At("quit", "stop") /\ Return("quit")
    /\ Recv(Do("stop")) /\ agent' = "stopping"
    /\ UNCHANGED <<counts, record, pool, kernel, fds, ops, faults>>

JoinGroup ==
    /\ agent = "gone" /\ At("dm", "idle")
    /\ agent' = "running"
    /\ UNCHANGED <<counts, record, queue, pool, kernel, fds, pc, ops, faults>>

-----------------------------------------------------------------------------
(* NetworkAgentTemplate: the actor's commands, and the sessions            *)

IsNext(c) == queue # <<>> /\ Head(queue).do \in c /\ At("actor", "idle")
Take(c) == IsNext(c) /\ queue' = Tail(queue)

\* HoldSession gives a session to the kernel and the pool.
Hold(server) ==
    /\ fds < MaxFds /\ fds' = fds + 1
    /\ pool' = pool \cup {[fd |-> fds + 1, server |-> server]}
    /\ kernel' = kernel \cup {fds + 1}

\* ReleaseSession: hmdfs loses the sockets, and is told when none is left.
ReleaseSession(gone) ==
    /\ pool' = pool \ gone
    /\ kernel' = kernel \ {s.fd : s \in gone}

ConnectDeviceByP2PAsync ==
    /\ Take({"connect"})
    /\ \/ Hold(FALSE) /\ UNCHANGED faults
       \/ Fault /\ UNCHANGED <<pool, kernel, fds>>
    /\ UNCHANGED <<counts, record, agent, pc, ops>>

\* DisconnectDeviceByP2P keeps what the other device opened.
DisconnectDeviceByP2P ==
    /\ Take({"disconnect"})
    /\ ReleaseSession({s \in pool : ~s.server})
    /\ UNCHANGED <<counts, record, agent, fds, pc, ops, faults>>

\* DisconnectDeviceByP2PHmdfs, CloseSessionForOneDeviceInner, DisconnectAllDevices.
DisconnectDevice ==
    /\ Take({"offline", "closeone", "all"})
    /\ ReleaseSession(pool)
    /\ connects' = RemoveConnectOfDevice
    /\ UNCHANGED <<overlap, docs, mounted, record, agent, fds, pc, ops, faults>>

\* GetSessionProcessInner: a session of ours that broke is opened again while
\* somebody is connected; if that fails, everybody is disconnected.
GetSession ==
    /\ Take({"get"})
    /\ LET lost == {s \in pool : s.fd = Head(queue).fd}
           rest == [pool |-> pool \ lost, kernel |-> kernel \ {Head(queue).fd}]
       IN IF (\E s \in lost : ~s.server) /\ CheckCount
          THEN \/ /\ fds < MaxFds /\ fds' = fds + 1
                  /\ pool' = rest.pool \cup {[fd |-> fds + 1, server |-> FALSE]}
                  /\ kernel' = rest.kernel \cup {fds + 1}
                  /\ UNCHANGED <<connects, pc, faults>>
               \/ /\ Fault
                  /\ connects' = RemoveConnectOfDevice
                  /\ Enter("actor", "unmount", "none", TRUE)
                  /\ pool' = rest.pool /\ kernel' = rest.kernel /\ UNCHANGED fds
          ELSE pool' = rest.pool /\ kernel' = rest.kernel /\ UNCHANGED <<connects, pc, fds, faults>>
    /\ UNCHANGED <<overlap, docs, mounted, record, agent, ops>>

\* The agent is stopped and dropped with its pool; nobody is told, and a record
\* that was made since OfflineAllDevice keeps it.
Stop ==
    /\ IsNext({"stop"})
    /\ record' = IF record = "current" THEN "old" ELSE record
    /\ agent' = "gone" /\ queue' = <<>> /\ pool' = {} /\ kernel' = {}
    /\ UNCHANGED <<counts, fds, pc, ops, faults>>

\* The other device opens a session.
OnSessionOpened ==
    /\ agent = "running" /\ Count /\ Hold(TRUE)
    /\ UNCHANGED <<counts, record, queue, agent, pc, faults>>

\* A session breaks: hmdfs asks for another one, or softbus reports the end of
\* a session of the other device.
LinkBreaks(s) ==
    /\ s \in pool /\ s.fd \in kernel /\ agent = "running" /\ Count
    /\ kernel' = kernel \ {s.fd}
    /\ Recv([do |-> "get", fd |-> s.fd]) \/ (s.server /\ Recv(Do("closeone")))
    /\ UNCHANGED <<counts, record, pool, agent, fds, pc, faults>>

Next ==
    \/ \E a \in Apps :
        \/ \E dfs \in BOOLEAN : Connect(a, dfs)
        \/ DisconnectDfs(a) \/ CloseP2PConnectionEx(a) \/ OnRemoteDied(a)
    \/ NotAllowed \/ ConnectionCount \/ OnDeviceP2POnline \/ Connected \/ NotConnected \/ Closed
    \/ MountDfsDocs \/ MountAtStorage \/ MountCounted \/ MountFails
    \/ \E t \in {"ipc", "remote", "dm", "actor"} :
        UMountDfsCountOnly(t) \/ UMountAtStorage(t) \/ RemoveMountDfsCount(t) \/ UMountFails(t)
    \/ \E t \in {"ipc", "change", "remote", "death"} : CleanUp(t) \/ OnDeviceP2POffline(t)
    \/ UpdateDfsSwitchStatus \/ DisconnectByRemote \/ DisconnectedByRemote
    \/ OnDeviceOffline \/ OfflinePosted \/ OfflineAllDevice \/ QuitGroup \/ JoinGroup
    \/ ConnectDeviceByP2PAsync \/ DisconnectDeviceByP2P \/ DisconnectDevice
    \/ GetSession \/ Stop \/ OnSessionOpened
    \/ \E s \in pool : LinkBreaks(s)

Spec == Init /\ [][Next]_vars

-----------------------------------------------------------------------------
Releasing == {"disconnect", "offline", "closeone", "all", "stop"}
Opens(i) == queue[i].do = "connect"

\* A session that this device opened, or is about to open, can always still be
\* released: the record that a disconnect goes by names its agent, or a command that
\* releases the sessions is queued behind it, however closing applications,
\* their deaths, failed connects, the switch and the device manager meet.
SessionsCanBeReleased ==
    record = "current" \/ LET last == {i \in DOMAIN queue : queue[i].do \in Releasing} IN
              /\ (\E s \in pool : ~s.server) => last # {}
              /\ \A i \in DOMAIN queue : Opens(i) => \E j \in last : j > i

\* The count of mounts and the storage manager agree, also when an unmount by
\* an event runs into a mount: what is mounted is counted (and so will be
\* unmounted), what is counted is mounted, unless a thread is about to see to
\* it.  Two unmounts at once are the exception: the second may find a mount
\* that is newer than its count.
MountsAreRecorded ==
    \/ overlap
    \/ /\ mounted => docs.present \/ At("ipc", "mounted")
       /\ docs.present => mounted \/ \E t \in Threads : At(t, "forget")
=============================================================================
