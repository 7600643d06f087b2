------------------------------- MODULE DaemonIpc -------------------------------
(***************************************************************************)
(* The calls between the processes whose proxies and stubs are written by  *)
(* hand: the distributed file daemon, its listeners and asset callbacks,   *)
(* the cloud daemon, and the callbacks of the cloud disk service.  For     *)
(* every call the steps of the proxy's function and those of the handler.  *)
(***************************************************************************)
EXTENDS CloudParcels

-----------------------------------------------------------------------------
(* DistributedFileDaemonProxy                                              *)

\* Every function: the descriptor and the arguments, the request, the test
\* of its status, and then what is read of the answer.
Request(args) == <<Put(Token("IDaemon"))>> \o Puts(args) \o <<Check("remote"), Send>>
Result == <<TryGet(Int("res"))>>

ProxyConnections == [
    ConnectDfs |-> Request(<<Str("networkId")>>) \o <<Status>> \o Result,
    DisconnectDfs |-> Request(<<Str("networkId")>>) \o <<Status>> \o Result,
    OpenP2PConnectionEx |->
        <<Put(Token("IDaemon")), Put(Str("networkId")), PutIfAny(Object("listener")), Check("remote"), Send, Status>>
        \o Result,
    CloseP2PConnectionEx |-> Request(<<Str("networkId")>>) \o <<Status>> \o Result]
ProxySessions == [
    PrepareSession |->
        Request(<<Str("srcUri"), Str("dstUri"), Str("srcDeviceId"), Object("listener"), Str("copyPath"),
                  Bool("dirExistFlag")>>)
        \o <<Get(Str("sessionName")), Status>> \o Result,
    RequestSendFile |->
        Request(<<Str("srcUri"), Str("dstPath"), Str("dstDeviceId"), Str("sessionName")>>) \o <<Status>> \o Result]
AccountInfo == <<Int("userId"), Str("accountId"), Str("networkId")>>
RequestSendFileACL ==
    Request(<<Str("srcUri"), Str("dstPath"), Str("dstDeviceId"), Str("sessionName")>> \o AccountInfo)
    \o <<Status>> \o Result
CopyInfo == Gets(<<Bool("isFile"), Bool("isDir"), Int("res")>>)
ProxyCopies == [
    GetRemoteCopyInfo |-> Request(<<Str("srcUri")>>) \o <<Status>> \o CopyInfo,
    GetRemoteCopyInfoACL |-> Request(<<Str("srcUri")>> \o AccountInfo) \o <<Status>> \o CopyInfo,
    CancelCopyTask |-> Request(<<Str("sessionName")>>) \o <<Status>> \o Result]
ProxyAssets == [
    CancelInnerCopyTask |-> Request(<<Str("srcUri"), Str("dstUri")>>) \o <<Status>> \o Result,
    PushAsset |->
        <<Put(Token("IDaemon")), Put(Int("userId")), Put(Parcelable("AssetObj")), Check("sendCallback"),
          Put(Object("sendCallback")), Check("remote"), Send, Status>> \o Result,
    RegisterAssetCallback |->
        <<Put(Token("IDaemon")), Check("recvCallback"), Put(Object("recvCallback")), Check("remote"), Send, Status>>
        \o Result,
    UnRegisterAssetCallback |->
        <<Put(Token("IDaemon")), Check("recvCallback"), Put(Object("recvCallback")), Check("remote"), Send, Status>>
        \o Result]

\* IpcWrapper: the number of strings, and the strings as one block.
WriteBatchUris(n) == <<PutMany(Uint(n), <<Str(n)>>)>>
ReadBatchUris(n) == <<GetMany(Uint(n), <<Str(n)>>, 1, NoLimit)>>
\* The answer holds three strings for each of the uris.
ReadUriInfoFromResult == <<GetMany(Uint("uriInfo"), <<Str("uri"), Str("uriStr"), Str("fileSize")>>, 1, NoLimit)>>
ProxyUris == [
    GetDfsUrisDirFromLocal |->
        <<Put(Token("IDaemon"))>> \o WriteBatchUris("uriList")
        \o <<Put(Int("userId")), Check("remote"), Send, Status, Get(Int("res")), EndUnlessOk("res")>>
        \o ReadUriInfoFromResult,
    UMountDisShareFile |-> Request(<<Str("bundleName"), Int("userId")>>) \o <<Status, Get(Int("res"))>>,
    GetDfsSwitchStatus |->
        Request(<<Str("networkId")>>) \o <<Status, Get(Int("res")), EndUnlessOk("res"), Get(Int("switchStatus"))>>]
ProxyListeners == [
    UpdateDfsSwitchStatus |-> Request(<<Int("switchStatus")>>) \o <<Status, Get(Int("res"))>>,
    GetConnectedDeviceList |->
        Request(<<>>)
        \o <<Status, Get(Int("res")), EndUnlessOk("res"),
             GetMany(Int("deviceList"), <<Str("networkId"), Str("path")>>, 0, MAX_SIZE)>>,
    RegisterFileDfsListener |->
        <<Put(Token("IDaemon")), Put(Str("instanceId")), Check("listener"), Put(Object("listener")), Check("remote"),
          Send, Status, Get(Int("res"))>>]
ProxyDevices == [
    UnregisterFileDfsListener |-> Request(<<Str("instanceId")>>) \o <<Status, Get(Int("res"))>>,
    IsSameAccountDevice |->
        Request(<<Str("networkId")>>) \o <<Status, Get(Int("res")), EndUnlessOk("res"), Get(Bool("isSameAccount"))>>]

-----------------------------------------------------------------------------
(* DaemonStub                                                              *)

Permission == <<Check("permission")>>
DCallingUid == <<Check("uid")>>
\* The handler answers the result and returns it as the status as well.
Answer == <<TryPut(Int("res")), Return("res")>>
AnswerChecked == <<Put(Int("res")), Return("res")>>
Done(outs) == Puts(<<Int("res")>> \o outs) \o <<Return("ok")>>

StubConnections == [
    HandleConnectDfs |-> Permission \o <<Get(Str("networkId")), Call>> \o Answer,
    HandleDisconnectDfs |-> Permission \o <<Get(Str("networkId")), Call>> \o Answer,
    HandleOpenP2PConnectionEx |-> <<Get(Str("networkId")), TryGet(Object("listener")), Call>> \o Answer,
    HandleCloseP2PConnectionEx |-> <<Get(Str("networkId")), Call>> \o Answer]

\* A plausible slip: the two names of the copy are read in the other order.
SwapsNames ==
    Gets(<<Str("dstUri"), Str("srcUri")>>) \o <<Check("paths")>>
    \o Gets(<<Str("srcDeviceId"), Object("listener"), Str("copyPath"), Bool("dirExistFlag")>>)
    \o <<Call, Put(Str("sessionName"))>> \o Answer

HandlePrepareSession ==
    Gets(<<Str("srcUri"), Str("dstUri")>>) \o <<Check("paths")>>
    \o Gets(<<Str("srcDeviceId"), Object("listener"), Str("copyPath"), Bool("dirExistFlag")>>)
    \o <<Call, Put(Str("sessionName"))>> \o Answer
SendFileArgs == Gets(<<Str("srcUri"), Str("dstPath"), Str("dstDeviceId"), Str("sessionName")>>)
StubSending == [
    HandleRequestSendFile |-> DCallingUid \o SendFileArgs \o <<Call>> \o Answer,
    HandleRequestSendFileACL |->
        DCallingUid \o SendFileArgs \o Gets(<<Int("userId"), Str("accountId"), Str("networkId")>>)
        \o <<Call>> \o AnswerChecked,
    HandleGetRemoteCopyInfo |->
        DCallingUid \o <<Get(Str("srcUri")), Check("path"), Call, FailUnlessOk>>
        \o Puts(<<Bool("isFile"), Bool("isDir"), Int("res")>>) \o <<Return("res")>>]
StubCopies == [
    HandleGetRemoteCopyInfoACL |->
        DCallingUid \o <<Get(Str("srcUri")), Check("path")>>
        \o Gets(<<Int("userId"), Str("accountId"), Str("networkId")>>)
        \o <<Call>> \o Puts(<<Bool("isFile"), Bool("isDir"), Int("res")>>) \o <<Return("res")>>,
    \* The two cancels answer by their status alone.
    HandleCancelCopyTask |-> <<Get(Str("sessionName")), Call, Return("res")>>,
    HandleInnerCancelCopyTask |-> Gets(<<Str("srcUri"), Str("dstUri")>>) \o <<Call, Return("res")>>,
    HandleRegisterRecvCallback |->
        DCallingUid \o Permission \o <<Get(Object("recvCallback")), Check("interface"), Call>> \o AnswerChecked,
    HandleUnRegisterRecvCallback |->
        DCallingUid \o Permission \o <<Get(Object("recvCallback")), Check("interface"), Call>> \o AnswerChecked]
StubAssets == [
    HandlePushAsset |->
        DCallingUid \o Permission
        \o <<Get(Int("userId")), Check("userId"), Get(Parcelable("AssetObj")), Get(Object("sendCallback")),
             Check("interface"), Call>> \o AnswerChecked,
    HandleGetDfsUrisDirFromLocal |->
        DCallingUid \o ReadBatchUris("uriList")
        \o <<Get(Int("userId")), Call, Put(Int("res")), EndUnlessOk("ok"),
             PutMany(Uint("uriInfo"), <<Str("uri"), Str("uriStr"), Str("fileSize")>>), Return("res")>>,
    HandleGetDfsSwitchStatus |-> Permission \o <<Get(Str("networkId")), Call>> \o Done(<<Int("switchStatus")>>),
    HandleUpdateDfsSwitchStatus |-> Permission \o <<Get(Int("switchStatus")), Call>> \o Done(<<>>)]
StubListeners == [
    HandleGetConnectedDeviceList |->
        Permission
        \o <<Call, Put(Int("res")), PutMany(Int("deviceList"), <<Str("networkId"), Str("path")>>), Return("ok")>>,
    HandleRegisterFileDfsListener |->
        Permission \o <<Get(Str("instanceId")), Get(Object("listener")), Check("interface"), Call>> \o Done(<<>>),
    HandleUnregisterFileDfsListener |-> Permission \o <<Get(Str("instanceId")), Call>> \o Done(<<>>),
    HandleIsSameAccountDevice |-> Permission \o <<Get(Str("networkId")), Call>> \o Done(<<Bool("isSameAccount")>>),
    HandleUMountDisShareFile |-> Gets(<<Str("bundleName"), Int("userId")>>) \o <<Call>> \o AnswerChecked]

\* The codes a daemon of another device may use.
remoteAllowedCodes == {"RequestSendFile", "GetRemoteCopyInfo", "GetRemoteCopyInfoACL", "RequestSendFileACL"}

\* The handler of a code.
opToInterfaceMap == [
    ConnectDfs |-> StubConnections.HandleConnectDfs, DisconnectDfs |-> StubConnections.HandleDisconnectDfs,
    OpenP2PConnectionEx |-> StubConnections.HandleOpenP2PConnectionEx,
    CloseP2PConnectionEx |-> StubConnections.HandleCloseP2PConnectionEx,
    PrepareSession |-> HandlePrepareSession, CancelCopyTask |-> StubCopies.HandleCancelCopyTask,
    CancelInnerCopyTask |-> StubCopies.HandleInnerCancelCopyTask,
    RequestSendFile |-> StubSending.HandleRequestSendFile,
    GetRemoteCopyInfo |-> StubSending.HandleGetRemoteCopyInfo,
    RegisterAssetCallback |-> StubCopies.HandleRegisterRecvCallback,
    UnRegisterAssetCallback |-> StubCopies.HandleUnRegisterRecvCallback,
    PushAsset |-> StubAssets.HandlePushAsset,
    GetDfsUrisDirFromLocal |-> StubAssets.HandleGetDfsUrisDirFromLocal,
    UMountDisShareFile |-> StubListeners.HandleUMountDisShareFile,
    GetRemoteCopyInfoACL |-> StubCopies.HandleGetRemoteCopyInfoACL,
    RequestSendFileACL |-> StubSending.HandleRequestSendFileACL,
    GetDfsSwitchStatus |-> StubAssets.HandleGetDfsSwitchStatus,
    UpdateDfsSwitchStatus |-> StubAssets.HandleUpdateDfsSwitchStatus,
    GetConnectedDeviceList |-> StubListeners.HandleGetConnectedDeviceList,
    RegisterFileDfsListener |-> StubListeners.HandleRegisterFileDfsListener,
    UnregisterFileDfsListener |-> StubListeners.HandleUnregisterFileDfsListener,
    IsSameAccountDevice |-> StubListeners.HandleIsSameAccountDevice]

OnRemoteRequest(code) ==
    <<Get(Token("IDaemon"))>> \o (IF code \in remoteAllowedCodes THEN <<>> ELSE <<Check("local")>>)
    \o opToInterfaceMap[code]

DaemonProxy ==
    ProxyConnections @@ ProxySessions @@ ProxyCopies @@ ProxyAssets @@ ProxyUris @@ ProxyListeners @@ ProxyDevices
    @@ [RequestSendFileACL |-> RequestSendFileACL]

-----------------------------------------------------------------------------
(* Listeners and callbacks: the service is the one that calls              *)

Told(d, args) == <<Put(Token(d))>> \o Puts(args) \o <<Check("remote"), Send, Status>> \o Result
Listens(d, args) ==
    <<Get(Token(d))>> \o Gets(args) \o <<Call, FailUnlessOk>> \o <<TryPut(Int("res")), Return("res")>>

TransListenerProxy == [
    OnFileReceive |-> Told("IFileTransListener", <<Ulong("totalBytes"), Ulong("processedBytes")>>),
    OnFailed |-> Told("IFileTransListener", <<Str("sessionName"), Int("errorCode")>>),
    OnFinished |-> Told("IFileTransListener", <<Str("sessionName")>>)]
TransListenerStub == [
    HandleOnFileReceive |-> Listens("IFileTransListener", <<Ulong("totalBytes"), Ulong("processedBytes")>>),
    HandleOnFailed |-> Listens("IFileTransListener", <<Str("sessionName"), Int("errorCode")>>),
    HandleOnFinished |-> Listens("IFileTransListener", <<Str("sessionName")>>)]

OnSendResult == Told("IAssetSendCallback", <<Parcelable("AssetObj"), Int("result")>>)
HandleOnSendResult == Listens("IAssetSendCallback", <<Parcelable("AssetObj"), Int("result")>>)
RecvCallbackProxy == [
    OnStart |->
        Told("IAssetRecvCallback",
             <<Str("srcNetworkId"), Str("destNetworkId"), Str("sessionId"), Str("destBundleName")>>),
    OnRecvProgress |->
        Told("IAssetRecvCallback",
             <<Str("srcNetworkId"), Parcelable("AssetObj"), Ulong("totalBytes"), Ulong("processBytes")>>),
    OnRecvFinished |-> Told("IAssetRecvCallback", <<Str("srcNetworkId"), Parcelable("AssetObj"), Int("result")>>)]
RecvCallbackStub == [
    HandleOnStart |->
        Listens("IAssetRecvCallback",
                <<Str("srcNetworkId"), Str("destNetworkId"), Str("sessionId"), Str("destBundleName")>>),
    HandleOnRecvProgress |->
        Listens("IAssetRecvCallback",
                <<Str("srcNetworkId"), Parcelable("AssetObj"), Ulong("totalBytes"), Ulong("processBytes")>>),
    HandleOnRecvFinished |->
        Listens("IAssetRecvCallback", <<Str("srcNetworkId"), Parcelable("AssetObj"), Int("result")>>)]

OnStatus ==
    <<Put(Token("IFileDfsListener"))>> \o Puts(<<Str("networkId"), Int("status"), Str("path"), Int("type")>>)
    \o <<Check("remote"), SendAsync>>
HandleOnStatus ==
    <<Get(Token("IFileDfsListener"))>> \o Gets(<<Str("networkId"), Int("status"), Str("path"), Int("type")>>)
    \o <<Check("networkId"), Notify, Return("ok")>>

OnDownloadFinished ==
    <<Put(Token("IDownloadAssetCallback"))>> \o Puts(<<Ulong("taskId"), Str("uri"), Int("result")>>)
    \o <<Check("remote"), Send>>
HandleOnDownloadFinished ==
    <<Get(Token("IDownloadAssetCallback"))>> \o Gets(<<Ulong("taskId"), Str("uri"), Int("result")>>)
    \o <<Notify, Return("ok")>>

\* The fd is closed when the path cannot be read; the result does not go
\* into the status.
StartFuse ==
    <<Put(Token("ICloudDaemon"))>> \o Puts(<<Int("userId"), Fd("devFd"), Str("path")>>)
    \o <<Check("remote"), Send, Status>> \o Result
HandleStartFuseInner ==
    <<Get(Token("ICloudDaemon"))>> \o Gets(<<Int("userId"), Fd("devFd"), Str("path")>>)
    \o <<Call, TryPut(Int("res")), Return("ok")>>

-----------------------------------------------------------------------------
(* Callbacks of the cloud disk service                                     *)

OnProgress ==
    <<Check("remote"), Put(Token("ICloudDiskProgressCallback")), Put(Parcelable("HydrateProgress")), SendAsync>>
HandleOnProgress ==
    <<Get(Token("ICloudDiskProgressCallback")), Get(Parcelable("HydrateProgress")), Notify, Return("ok")>>
OnChangeData ==
    <<Put(Token("ICloudDiskServiceCallback")), Bounds(0, MAX_SIZE), TryPut(Str("sandboxPath")),
      PutMany(Int("changeData"), <<Parcelable("ChangeData")>>), Check("remote"), Send>>
HandleOnChangeData ==
    <<Get(Token("ICloudDiskServiceCallback")), Get(Str("sandboxPath")),
      GetMany(Int("changeData"), <<Parcelable("ChangeData")>>, 0, MAX_SIZE), Notify, Return("ok")>>
SendCallback(type) ==
    <<Put(Token("ICloudDiskServiceCallbackTable"))>> \o WriteCallbackParcel(type)
    \o <<Check("remote")>>
    \o (IF type = "DEHYDRATE" THEN <<Send, Status>> \o ReadCallbackReply(type) ELSE <<SendAsync>>)
HandleOnCallback(type) ==
    <<Get(Token("ICloudDiskServiceCallbackTable"))>> \o ReadCallbackParcel(type) \o <<Notify>>
    \o WriteCallbackReply(type) \o <<Return("ok")>>

Callbacks == [
    OnFileReceive |-> <<TransListenerProxy.OnFileReceive, TransListenerStub.HandleOnFileReceive>>,
    OnFailed |-> <<TransListenerProxy.OnFailed, TransListenerStub.HandleOnFailed>>,
    OnFinished |-> <<TransListenerProxy.OnFinished, TransListenerStub.HandleOnFinished>>,
    OnSendResult |-> <<OnSendResult, HandleOnSendResult>>,
    OnStart |-> <<RecvCallbackProxy.OnStart, RecvCallbackStub.HandleOnStart>>,
    OnRecvProgress |-> <<RecvCallbackProxy.OnRecvProgress, RecvCallbackStub.HandleOnRecvProgress>>,
    OnRecvFinished |-> <<RecvCallbackProxy.OnRecvFinished, RecvCallbackStub.HandleOnRecvFinished>>,
    OnStatus |-> <<OnStatus, HandleOnStatus>>,
    OnDownloadFinished |-> <<OnDownloadFinished, HandleOnDownloadFinished>>,
    StartFuse |-> <<StartFuse, HandleStartFuseInner>>, OnProgress |-> <<OnProgress, HandleOnProgress>>,
    OnChangeData |-> <<OnChangeData, HandleOnChangeData>>,
    FetchData |-> <<SendCallback("FETCH_DATA"), HandleOnCallback("FETCH_DATA")>>,
    CancelFetchData |-> <<SendCallback("CANCEL_FETCH_DATA"), HandleOnCallback("CANCEL_FETCH_DATA")>>,
    Dehydrate |-> <<SendCallback("DEHYDRATE"), HandleOnCallback("DEHYDRATE")>>]
=============================================================================
