------------------------------- MODULE AssetPush -------------------------------
(***************************************************************************)
(* Assets pushed to another device: the sender (callbacks by task, the     *)
(* event handler's thread, zip files, softbus callbacks), the receiver     *)
(* (sockets, temporary files, callbacks) and the applications' listeners,  *)
(* which AssetAdapterSaClient registers again after the daemon restarts.   *)
(***************************************************************************)
EXTENDS Naturals, Sequences, FiniteSets

CONSTANTS
    Kinds,      \* subset of {"send", "recv", "client"}
    Pushes,     \* calls of PushAsset
    TaskOf,     \* push -> task: its bundle and session id
    Multi,      \* pushes of several files, which are zipped
    Sockets,    \* sockets of the receiver
    Bundles,    \* socket -> bundle that receives
    Listeners,
    MaxOps, MaxFaults

None == "none"
Tasks == {TaskOf[p] : p \in Pushes}

VARIABLES
    push,       \* push -> [at, sock, obj, zip]
    queue,      \* events for the event handler's thread
    sendCallbackMap,
    fileMap,    \* taskIsSingleFileMap_: task -> push or None
    told,       \* history: push -> results its callback was given
    failed,     \* history: pushes that the event handler's thread gave up
    garbage,    \* history: pushes whose zip failed
    recv,       \* socket -> [link, client, obj, file]
    starts,     \* history: socket -> whether its start was notified
    ends,       \* history: socket -> its ends that were notified
    good,       \* history: sockets whose end was a success
    listeners,  \* of the application
    registered, \* recvCallbackList_ of the daemon
    up, notice, \* the daemon runs; its start is not yet known
    missed,     \* history: listeners whose registration failed
    ops, faults

sendVars == <<push, queue, sendCallbackMap, fileMap, told, failed, garbage>>
recvVars == <<recv, starts, ends, good>>
clientVars == <<listeners, registered, up, notice, missed, ops>>
vars == <<sendVars, recvVars, clientVars, faults>>

TypeOK ==
    /\ \A t \in Tasks : sendCallbackMap[t] \in Pushes \cup {None} /\ fileMap[t] \in Pushes \cup {None}
    /\ \A p \in Pushes : told[p] \in 0 .. 2
    /\ listeners \subseteq Listeners /\ registered \subseteq Listeners

Init ==
    /\ push = [p \in Pushes |-> [at |-> "idle", sock |-> "none", obj |-> FALSE, zip |-> FALSE]]
    /\ queue = <<>> /\ sendCallbackMap = [t \in Tasks |-> None] /\ fileMap = [t \in Tasks |-> None]
    /\ told = [p \in Pushes |-> 0] /\ failed = {} /\ garbage = {}
    /\ recv = [s \in Sockets |-> [link |-> "none", client |-> FALSE, obj |-> FALSE, file |-> "none"]]
    /\ starts = [s \in Sockets |-> FALSE] /\ ends = [s \in Sockets |-> 0] /\ good = {}
    /\ listeners = {} /\ registered = {} /\ up \in BOOLEAN /\ notice = FALSE /\ missed = {}
    /\ ops = 0 /\ faults = 0

Fault == faults < MaxFaults /\ faults' = faults + 1
MayFail(ok) == IF ok THEN UNCHANGED faults ELSE Fault

-----------------------------------------------------------------------------
(* The sender                                                              *)

Task(p) == TaskOf[p]
Set(p, v) == push' = [push EXCEPT ![p] = v]

\* NotifyAssetSendResult: whoever is registered under the task is told.
Notify(p) ==
    LET q == sendCallbackMap[Task(p)] IN told' = IF q = None THEN told ELSE [told EXCEPT ![q] = @ + 1]

RemoveSendCallback(p) == sendCallbackMap' = [sendCallbackMap EXCEPT ![Task(p)] = None]
AddSendCallback(p) == sendCallbackMap' = [sendCallbackMap EXCEPT ![Task(p)] = IF @ = None THEN p ELSE @]

PushAsset(p, ok) ==
    /\ push[p].at = "idle" /\ MayFail(ok)
    /\ IF ok THEN /\ Set(p, [push[p] EXCEPT !.at = "queued"]) /\ queue' = Append(queue, p)
                  /\ AddSendCallback(p)
       ELSE Set(p, [push[p] EXCEPT !.at = "refused"]) /\ RemoveSendCallback(p) /\ UNCHANGED queue
    /\ UNCHANGED <<fileMap, told, failed, garbage>>

\* The event handler's thread takes one push at a time.
Executing == \E p \in Pushes : push[p].at \in {"bound", "list", "zip", "send", "fail", "clean"}

AssetBind(ok) ==
    /\ queue # <<>> /\ ~Executing /\ queue' = Tail(queue) /\ MayFail(ok)
    /\ LET p == Head(queue) IN
       IF ok THEN Set(p, [push[p] EXCEPT !.at = "bound", !.sock = "open"])
                  /\ UNCHANGED <<sendCallbackMap, told>>
       ELSE Set(p, [push[p] EXCEPT !.at = "over"]) /\ Notify(p) /\ RemoveSendCallback(p)
    /\ UNCHANGED <<fileMap, failed, garbage>>

AddAssetObj(p) ==
    /\ push[p].at = "bound" /\ Set(p, [push[p] EXCEPT !.at = "list", !.obj = TRUE])
    /\ UNCHANGED <<queue, sendCallbackMap, fileMap, told, failed, garbage, faults>>

GetFileList(p, ok) ==
    /\ push[p].at = "list" /\ MayFail(ok)
    /\ Set(p, [push[p] EXCEPT !.at = IF ok THEN "zip" ELSE "fail"])
    /\ failed' = IF ok THEN failed ELSE failed \cup {p}
    /\ UNCHANGED <<queue, sendCallbackMap, fileMap, told, garbage>>

AddFileMap(p) == fileMap' = [fileMap EXCEPT ![Task(p)] = IF @ = None THEN p ELSE @]
RemoveFileMap(p) == fileMap' = [fileMap EXCEPT ![Task(p)] = None]

HandleZip(p, ok) ==
    /\ push[p].at = "zip" /\ (ok \/ p \in Multi) /\ MayFail(ok)
    /\ Set(p, [push[p] EXCEPT !.at = IF ok THEN "send" ELSE "fail", !.zip = p \in Multi])
    /\ IF ok THEN AddFileMap(p) /\ UNCHANGED <<failed, garbage>>
       ELSE failed' = failed \cup {p} /\ garbage' = garbage \cup {p} /\ UNCHANGED fileMap
    /\ UNCHANGED <<queue, sendCallbackMap, told>>

AssetSendFile(p, ok) ==
    /\ push[p].at = "send" /\ MayFail(ok)
    /\ LET sent == ok /\ push[p].obj /\ push[p].sock = "open" IN
       /\ Set(p, [push[p] EXCEPT !.at = IF sent THEN "sent" ELSE "fail"])
       /\ failed' = IF sent THEN failed ELSE failed \cup {p}
    /\ UNCHANGED <<queue, sendCallbackMap, fileMap, told, garbage>>

\* HandlePushAssetFail: the result first, ...
FailNotified(p) ==
    /\ push[p].at = "fail" /\ Notify(p) /\ Set(p, [push[p] EXCEPT !.at = "clean"])
    /\ UNCHANGED <<queue, sendCallbackMap, fileMap, failed, garbage, faults>>

CloseAssetBind(r) == [r EXCEPT !.sock = "closed", !.obj = FALSE]

\* ... then the socket, the callback and the zip; after a failed HandleZip
\* isSingleFile has no value, and the zip goes or stays.
HandlePushAssetFail(p) ==
    /\ push[p].at = "clean"
    /\ \E z \in (IF p \in garbage THEN BOOLEAN ELSE {FALSE}) :
        Set(p, [CloseAssetBind(push[p]) EXCEPT !.at = "over", !.zip = @ /\ z])
    /\ RemoveSendCallback(p) /\ RemoveFileMap(p)
    /\ UNCHANGED <<queue, told, failed, garbage, faults>>

RemoveFile(p, r) == [r EXCEPT !.zip = @ /\ fileMap[Task(p)] # p]
Closed(p) == RemoveFile(p, CloseAssetBind(push[p]))

\* What OnSendAssetFinished, OnSendAssetError, OnSendShutdown and
\* DisConnectByAllConnect do about the socket of an asset, under mtx_.
SendEnds(p) ==
    /\ Notify(p) /\ RemoveSendCallback(p) /\ RemoveFileMap(p) /\ Set(p, Closed(p))

OnSendAssetFinished(p) ==
    /\ push[p].at = "sent" /\ push[p].sock = "open" /\ push[p].obj /\ SendEnds(p)
    /\ UNCHANGED <<queue, failed, garbage, faults>>

OnSendShutdown(p) ==
    /\ push[p].sock = "open" /\ Fault
    /\ IF push[p].obj THEN SendEnds(p)
       ELSE Set(p, [push[p] EXCEPT !.sock = "closed"]) /\ UNCHANGED <<told, sendCallbackMap, fileMap>>
    /\ UNCHANGED <<queue, failed, garbage>>

SendNext ==
    \/ \E p \in Pushes :
        \/ AddAssetObj(p) \/ FailNotified(p) \/ HandlePushAssetFail(p)
        \/ OnSendAssetFinished(p) \/ OnSendShutdown(p)
        \/ \E ok \in BOOLEAN : PushAsset(p, ok) \/ GetFileList(p, ok) \/ HandleZip(p, ok) \/ AssetSendFile(p, ok)
    \/ \E ok \in BOOLEAN : AssetBind(ok)

-----------------------------------------------------------------------------
(* The receiver; every callback runs under mtx_                            *)

SetRecv(s, v) == recv' = [recv EXCEPT ![s] = v]

OnAssetRecvBind(s, same) ==
    /\ recv[s].link = "none" /\ MayFail(same)
    /\ SetRecv(s, [recv[s] EXCEPT !.link = IF same THEN "open" ELSE "closed", !.client = same])
    /\ UNCHANGED <<starts, ends, good>>

\* Softbus writes the file below ASSET_TEMP of the bundle.
ReceiveFile(s) ==
    /\ recv[s].link = "open" /\ recv[s].file = "none" /\ SetRecv(s, [recv[s] EXCEPT !.file = "temp"])
    /\ UNCHANGED <<starts, ends, good, faults>>

NotifyAssetRecvStart(s) == starts' = [starts EXCEPT ![s] = TRUE]

OnRecvAssetStart(s, ok) ==
    /\ recv[s].link = "open" /\ recv[s].client /\ ~recv[s].obj /\ recv[s].file = "none" /\ MayFail(ok)
    /\ IF ok THEN SetRecv(s, [recv[s] EXCEPT !.obj = TRUE]) /\ NotifyAssetRecvStart(s)
       ELSE UNCHANGED <<recv, starts>>
    /\ UNCHANGED <<ends, good>>

RemoveClientInfo(s, r) == recv' = [r EXCEPT ![s].client = FALSE, ![s].obj = FALSE]
NotifyAssetRecvFinished(s) == ends' = [ends EXCEPT ![s] = @ + 1]
RecvEnds(s, r) == NotifyAssetRecvFinished(s) /\ RemoveClientInfo(s, r)

\* RemoveAsset removes ASSET_TEMP with the files of other sockets in it.
RemoveAsset(s) ==
    [t \in Sockets |-> IF Bundles[t] = Bundles[s] /\ recv[t].file = "temp" THEN [recv[t] EXCEPT !.file = "gone"] ELSE recv[t]]

Placed(s) == [RemoveAsset(s) EXCEPT ![s].file = "placed"]

\* HandleSingleFile, HandleZipFile: a file that is gone cannot be moved.
Handled(s, ok) == ok /\ recv[s].file = "temp"

OnRecvAssetFinished(s, ok) ==
    /\ recv[s].link = "open" /\ recv[s].client /\ recv[s].file \in {"temp", "gone"} /\ MayFail(ok)
    /\ IF Handled(s, ok) THEN RecvEnds(s, Placed(s)) /\ good' = good \cup {s}
       ELSE RecvEnds(s, recv) /\ UNCHANGED good
    /\ UNCHANGED starts

\* OnRecvAssetError, OnRecvShutdown and DisConnectByAllConnect
GivenUp(s) == RecvEnds(s, [recv EXCEPT ![s].link = "closed"])

OnRecvAssetError(s) ==
    /\ recv[s].link = "open" /\ recv[s].client /\ Fault /\ RecvEnds(s, recv) /\ UNCHANGED <<starts, good>>

OnRecvShutdown(s) ==
    /\ recv[s].link = "open"
    /\ IF recv[s].client /\ recv[s].obj THEN GivenUp(s)
       ELSE SetRecv(s, [recv[s] EXCEPT !.link = "closed", !.client = FALSE]) /\ UNCHANGED ends
    /\ UNCHANGED <<starts, good, faults>>

RecvNext ==
    \E s \in Sockets :
        \/ ReceiveFile(s) \/ OnRecvAssetError(s) \/ OnRecvShutdown(s)
        \/ \E ok \in BOOLEAN : OnAssetRecvBind(s, ok) \/ OnRecvAssetStart(s, ok) \/ OnRecvAssetFinished(s, ok)

-----------------------------------------------------------------------------
(* AssetAdapterSaClient                                                    *)

AddListener(l, ok) ==
    /\ ops < MaxOps /\ ops' = ops + 1 /\ MayFail(ok) /\ (ok \/ up)
    /\ listeners' = listeners \cup {l}
    /\ IF up /\ ok THEN registered' = registered \cup {l} /\ missed' = missed \ {l}
       ELSE UNCHANGED registered /\ missed' = IF up THEN missed \cup {l} ELSE missed
    /\ UNCHANGED <<up, notice>>

RemoveListener(l, ok) ==
    /\ ops < MaxOps /\ ops' = ops + 1 /\ l \in listeners /\ listeners' = listeners \ {l}
    /\ MayFail(ok) /\ (ok \/ up)
    /\ registered' = IF up /\ ok THEN registered \ {l} ELSE registered
    /\ missed' = IF up /\ ~ok THEN missed \cup {l} ELSE missed
    /\ UNCHANGED <<up, notice>>

DaemonStops ==
    /\ up /\ up' = FALSE /\ notice' = FALSE /\ registered' = {} /\ missed' = {} /\ Fault
    /\ UNCHANGED <<listeners, ops>>

DaemonStarts ==
    /\ ~up /\ up' = TRUE /\ notice' = TRUE /\ UNCHANGED <<listeners, registered, missed, ops, faults>>

Reregister(bad) == notice' = FALSE /\ registered' = registered \cup (listeners \ bad)

\* A registration that fails is passed over.
OnAddSystemAbility(bad) ==
    /\ notice /\ up /\ Reregister(bad) /\ MayFail(bad = {}) /\ missed' = missed \cup bad
    /\ UNCHANGED <<listeners, up, ops>>

ClientNext ==
    \/ DaemonStops \/ DaemonStarts \/ \E bad \in SUBSET listeners : OnAddSystemAbility(bad)
    \/ \E l \in Listeners, ok \in BOOLEAN : AddListener(l, ok) \/ RemoveListener(l, ok)

Next ==
    \/ "send" \in Kinds /\ SendNext /\ UNCHANGED <<recvVars, clientVars>>
    \/ "recv" \in Kinds /\ RecvNext /\ UNCHANGED <<sendVars, clientVars>>
    \/ "client" \in Kinds /\ ClientNext /\ UNCHANGED <<sendVars, recvVars>>

Spec == Init /\ [][Next]_vars

-----------------------------------------------------------------------------
(* What is checked                                                         *)

Over(p) == push[p].at \in {"sent", "over"} /\ push[p].sock # "open"
Alone(p) == \A q \in Pushes \ {p} : TaskOf[q] # TaskOf[p]

\* A push that was accepted is told its result, exactly once unless the event
\* handler's thread gave it up while softbus reported its end; and no zip file
\* stays, unless making it failed.
SenderIsTold ==
    \A p \in Pushes : Alone(p) =>
        /\ Over(p) => told[p] >= 1 /\ (push[p].zip => p \in garbage)
        /\ told[p] > 1 => p \in failed

\* A receiver that was told of a start is told of one end; of a success only
\* if the file is in its place, although another asset of the same bundle may
\* have removed the temporary files.
ReceiverIsTold ==
    \A s \in Sockets :
        /\ ends[s] <= 1
        /\ starts[s] /\ recv[s].link = "closed" => ends[s] = 1
        /\ s \in good => recv[s].file = "placed"

\* While the daemon runs and its start is known, it calls the listeners that
\* the application has, and no others, unless a call to it failed.
ListenersAreRegistered ==
    up /\ ~notice => (listeners \ registered) \cup (registered \ listeners) \subseteq missed
=============================================================================
