----------------------------- MODULE ClientPrograms -----------------------------
(***************************************************************************)
(* The native client libraries, one program for each function an           *)
(* application calls: the tests of its arguments, how it gets hold of the  *)
(* service, the call, and what it does to the client's own tables before   *)
(* and after it.  ClientCalls runs the programs.                           *)
(***************************************************************************)
EXTENDS Sequences, TLC

-----------------------------------------------------------------------------
(* Steps                                                                   *)

Step(k, code, eff, tab, undo) == [k |-> k, code |-> code, eff |-> eff, tab |-> tab, undo |-> undo]

\* The caller's arguments, its account or an allocation: on failure the
\* function returns the code.
Check(code) == Step("check", code, "none", "none", <<>>)

\* ServiceProxy::GetInstance, which loads the service; its variant that does
\* not; and the daemon's proxy, which is kept until its death is told.
GetOr(code, undo) == Step("get", code, "none", "none", undo)
Get(code) == GetOr(code, <<>>)
GetIfUp(code) == Step("peek", code, "none", "none", <<>>)
GetCached(code) == Step("cached", code, "none", "none", <<>>)

\* The call to the service, and those that change what the service knows of
\* the caller.
Call == Step("call", "ok", "none", "none", <<>>)
Reg(tab) == Step("call", "ok", "add", tab, <<>>)
Unreg(tab) == Step("call", "ok", "remove", tab, <<>>)

\* Changes of the client's tables, whatever the result, or by the result.
Do(eff, tab) == Step("do", "ok", eff, tab, <<>>)
IfOk(eff, tab) == Step("ifok", "ok", eff, tab, <<>>)
IfFailed(eff, tab) == Step("iffailed", "ok", eff, tab, <<>>)
ReturnIfFailed(undo) == Step("guard", "ok", "none", "none", undo)
Convert(m) == Step("convert", m, "none", "none", <<>>)

\* A test_and_set: the next steps are skipped if the flag was set.
FirstOf(flag, n) == Step("first", n, "none", flag, <<>>)
SkipIf(flag, n) == Step("skipif", n, "none", flag, <<>>)
Hold(lock) == Step("hold", "ok", "none", lock, <<>>)
Release(lock) == Step("release", "ok", "none", lock, <<>>)

\* SetDeathRecipient: the first caller links to the death of the service.
\* Where the result of AddDeathRecipient is looked at, a failure lets the
\* next caller try again.
SetDeathRecipientUnchecked == <<FirstOf("flag", "1"), Step("link", "ok", "none", "none", <<>>)>>
SetDeathRecipient == <<FirstOf("flag", "1"), Step("link", "ok", "clear", "flag", <<>>)>>

-----------------------------------------------------------------------------
(* CloudSyncManagerImpl                                                    *)

Load == "E_SA_LOAD_FAILED"
Invalid == "E_INVAL_ARG"
Linked(code) == <<Get(code)>> \o SetDeathRecipient
Plain == Linked(Load) \o <<Call>>

AddCallback(tab) == IfOk("add", tab)
RemoveCallback(tab) == IfOk("remove", tab)

\* The public functions hide the service's codes.
OuterErrorCodeMap == [
    E_PERMISSION_DENIED |-> "E_PERMISSION_DENIED", E_PERMISSION_SYSTEM |-> "E_PERMISSION_SYSTEM",
    E_PERMISSION |-> "E_PERMISSION", E_PERMISSION_SYS |-> "E_PERMISSION_SYS", E_INVAL_ARG |-> "E_PARAMS_",
    E_EXCEED_MAX_SIZE |-> "E_INVAL_PARAM", E_INVALID_ARGUMENT |-> "E_INVAL_PARAM",
    E_INVAL_PARAM |-> "E_INVAL_PARAM", E_ILLEGAL_URI |-> "E_INVALID_URI"]
ConverInnerErrorCode2OuterErrorCode(ret) ==
    CASE ret = "ok" -> ret
      [] ret \in DOMAIN OuterErrorCodeMap -> OuterErrorCodeMap[ret]
      [] OTHER -> "E_AGAIN"
ErrForStartTransfer == {
    "E_PERMISSION_DENIED", "E_PERMISSION", "E_PERMISSION_SYSTEM", "E_PERMISSION_SYS", "E_OPERATION_DENY",
    "E_OPERATION_NOT_PERMITTED", "E_URI_NOT_EXIST", "E_NO_FILE_OR_DIR", "E_AGAIN", "E_TRY_AGAIN",
    "E_INVAL_PARAM", "E_INVALID_ARGUMENT", "E_TASK_RUNNING", "E_OTHER_TASK_RUNNING"}
ErrForGetDownloadTaskState == {
    "E_PERMISSION_DENIED", "E_PERMISSION_SYSTEM", "E_INVAL_PARAM", "E_AGAIN", "E_PERMISSION",
    "E_PERMISSION_SYS", "E_INVALID_ARGUMENT", "E_TRY_AGAIN"}
KeptOf(kept, ret) == IF ret \in kept \cup {"ok"} THEN ret ELSE "E_AGAIN"
Converted(m, ret) ==
    CASE m = "outer" -> ConverInnerErrorCode2OuterErrorCode(ret)
      [] m = "transfer" -> KeptOf(ErrForStartTransfer, ret)
      [] m = "tasks" -> KeptOf(ErrForGetDownloadTaskState, ret)

SyncCallbacks == [
    RegisterCallback |->
        <<Check(Invalid), Get(Load), Reg("sync"), AddCallback("sync"), IfOk("subscribe", "sync")>>
        \o SetDeathRecipient,
    RegisterFileSyncCallback |->
        <<Check(Invalid), Get(Load), Reg("sync"), AddCallback("sync"), IfOk("subscribe", "sync")>>
        \o SetDeathRecipient,
    UnRegisterCallback |->
        <<Check(Invalid), Get(Load), Unreg("sync"), RemoveCallback("sync"), IfOk("subscribe", "sync")>>
        \o SetDeathRecipient,
    UnRegisterFileSyncCallback |->
        <<Check(Invalid), Get(Load), Unreg("sync"), RemoveCallback("sync"), IfOk("subscribe", "sync")>>
        \o SetDeathRecipient,
    StartSync |-> <<Check(Invalid)>> \o Plain,
    StartFileSync |-> <<Check(Invalid)>> \o Plain,
    GetSyncTime |-> Plain]
SyncControl == [
    OptimizeStorage |-> Plain,
    StopOptimizeStorage |-> Plain,
    \* The flag of the death recipient decides here whether the callback is
    \* registered; a failed registration clears it.
    StartSyncWithCallback |->
        <<Check(Invalid), Check(Invalid), Step("pend", "ok", "none", "pending", <<>>),
          GetOr(Load, <<"pending">>), SkipIf("flag", "5"),
          Reg("media"), ReturnIfFailed(<<"flag", "pending">>), AddCallback("media")>>
        \o SetDeathRecipient \o <<Call, Do("clear", "pending")>>,
    TriggerSync |-> <<Check(Invalid), Check(Invalid)>> \o Plain,
    StopSync |-> <<GetIfUp("ok")>> \o SetDeathRecipient \o <<Call>>,
    StopFileSync |-> <<GetIfUp("ok")>> \o SetDeathRecipient \o <<Call>>,
    ResetCursor |-> Plain,
    ResetCursorWithFlag |-> Plain]
SyncSwitches == [
    ChangeAppSwitch |-> <<Check(Invalid)>> \o Plain,
    NotifyDataChange |-> Plain,
    NotifyEventChange |-> Plain,
    StartDownloadFile |-> <<Get(Load), Check(Invalid)>> \o SetDeathRecipient \o <<Call>>,
    BatchCleanFile |-> <<Check(Invalid)>> \o Plain,
    StartFileCache |-> <<Check(Invalid), Check("E_EXCEED_MAX_SIZE")>> \o Plain,
    GetDownloadList |-> <<Check(Invalid), Check("E_INVAL_PARAM")>> \o Linked("E_AGAIN") \o <<Call, Convert("outer")>>]
SyncUploads == [
    GetUploadList |-> <<Check(Invalid), Check("E_INVAL_PARAM")>> \o Linked("E_AGAIN") \o <<Call, Convert("outer")>>,
    \* A refused registration is returned as it is.
    RegisterUploadCallback |->
        <<Check(Invalid), Get("E_AGAIN"), Reg("upload"), ReturnIfFailed(<<>>), AddCallback("upload"),
          IfOk("subscribe", "sync")>>
        \o SetDeathRecipient \o <<Convert("outer")>>,
    UnRegisterUploadCallback |->
        <<Check(Invalid), Get("E_AGAIN"), Unreg("upload"), RemoveCallback("upload"), IfOk("subscribe", "sync")>>
        \o SetDeathRecipient \o <<Convert("outer")>>,
    PauseUpload |-> Linked("E_AGAIN") \o <<Call, Convert("outer")>>,
    ResumeUpload |-> Linked("E_AGAIN") \o <<Call, Convert("outer")>>,
    GetDecompressUnsupportedList |-> <<Get(Load), Call>>,
    GetDecompressSystemFeature |-> <<Get(Load), Call>>,
    StopDownloadFile |-> Plain]
SyncDowngrade ==
    LET CheckTransferTargetUri == Check("E_INVAL_PARAM")
        GetStartTransferErrPublic == Convert("transfer")
    IN  [StopFileCache |-> Plain,
         StartDowngrade |-> <<Get(Load), Check(Invalid)>> \o SetDeathRecipient \o <<Call>>,
         StopDowngrade |-> <<Get(Load), Check(Invalid)>> \o SetDeathRecipient \o <<Call>>,
         StartTransfer |->
             <<Get("E_AGAIN"), Check("E_INVAL_PARAM"), CheckTransferTargetUri>> \o SetDeathRecipient
             \o <<Call, GetStartTransferErrPublic>>,
         GetCloudFileInfo |-> <<Get(Load), Check(Invalid)>> \o SetDeathRecipient \o <<Call>>]
SyncVersions == [
    GetHistoryVersionList |-> <<Get(Load), Check("E_ILLEGAL_URI"), Check(Invalid)>> \o SetDeathRecipient \o <<Call>>,
    DownloadHistoryVersion |->
        <<Get(Load), Check("E_ILLEGAL_URI"), Check(Invalid), Check("E_SERVICE_INNER_ERROR")>>
        \o SetDeathRecipient \o <<Call>>,
    ReplaceFileWithHistoryVersion |-> <<Get(Load), Check("E_ILLEGAL_URI")>> \o SetDeathRecipient \o <<Call>>,
    IsFileConflict |-> <<Get(Load), Check("E_ILLEGAL_URI")>> \o SetDeathRecipient \o <<Call>>,
    ClearFileConflict |-> <<Get(Load), Check("E_ILLEGAL_URI")>> \o SetDeathRecipient \o <<Call>>,
    DownloadThumb |-> Plain]
SyncCleaning == [
    EnableCloud |-> Plain,
    DisableCloud |-> Plain,
    Clean |-> Plain,
    CleanCache |-> Plain,
    CleanAllFileCache |-> Plain,
    CleanAllFileCacheOf |-> Plain,
    GetCachedTotalSize |-> Plain,
    GetCachedTotalSizeOf |-> Plain,
    \* No service is asked, here and in GetDentryFileOccupy.
    GetRecycleBinSize |-> <<Check(Invalid), Check("E_RDB")>>,
    CleanFileCache |-> Plain,
    BatchDentryFileInsert |-> <<Check(Invalid)>> \o Plain]
SyncPresence == [
    GetBundlesLocalFilePresentStatus |-> <<Get(Load), Check("EINVAL")>> \o SetDeathRecipient \o <<Call>>,
    IsFinishPull |-> Plain]
SyncDentries == [
    GetDentryFileOccupy |-> <<>>,
    GetAclXattrBatch |-> Plain]
SyncTasks ==
    LET GetDowngradeDownloadTaskErr == Convert("tasks")
    IN  [GetDowngradeDownloadTaskState |-> Linked("E_AGAIN") \o <<Call, GetDowngradeDownloadTaskErr>>,
         SetMediaPreShared |-> Plain]

\* When the service is announced: every callback of the two lists again.
ResetProxyCallback ==
    <<Step("getagain", "ok", "none", "none", <<>>),
      Step("snapshot", "ok", "none", "sync", <<>>), Step("each", "ok", "add", "sync", <<>>),
      Step("snapshot", "ok", "none", "upload", <<>>), Step("each", "ok", "add", "upload", <<>>),
      Step("unlessany", "2", "none", "none", <<>>)>> \o SetDeathRecipient

SyncApi ==
    SyncCallbacks @@ SyncControl @@ SyncSwitches @@ SyncUploads @@ SyncDowngrade @@ SyncVersions @@ SyncCleaning
    @@ SyncPresence @@ SyncDentries @@ SyncTasks

-----------------------------------------------------------------------------
(* CloudSyncAssetManagerImpl, CloudSyncManagerImplLite,                    *)
(* CloudDaemonManagerImpl                                                  *)

PlainUnchecked == <<Get(Load)>> \o SetDeathRecipientUnchecked \o <<Call>>
AssetApi == [
    UploadAsset |-> PlainUnchecked,
    DownloadFile |-> PlainUnchecked,
    DownloadFiles |-> PlainUnchecked,
    DownloadFileWithCallback |->
        <<Get(Load), Check("E_MEMORY"), FirstOf("asset", "2"), Reg("asset"), ReturnIfFailed(<<"asset">>)>>
        \o SetDeathRecipientUnchecked \o <<Do("add", "task"), Reg("task"), IfFailed("remove", "task")>>,
    DeleteAsset |-> PlainUnchecked]

LiteApi == [
    TriggerSyncLite |-> <<Check(Invalid)>> \o Plain,
    RemovedClean |-> <<Check(Invalid)>> \o Plain]

StartFuse == <<GetIfUp(Load)>> \o SetDeathRecipientUnchecked \o <<Call>>
CloudDaemonApi == [StartFuse |-> StartFuse]

-----------------------------------------------------------------------------
(* DistributedFileDaemonManagerImpl                                        *)

Dfs == <<GetCached(Load), Call>>
DfsConnections == [
    ConnectDfs |-> <<GetCached(Load), Hold("p2p"), Call, Release("p2p")>>,
    DisconnectDfs |-> Dfs,
    OpenP2PConnectionEx |-> <<GetCached(Load), Hold("p2pex"), Call, Release("p2pex")>>,
    CloseP2PConnectionEx |-> Dfs,
    PrepareSession |-> Dfs,
    RequestSendFile |-> Dfs,
    GetRemoteCopyInfo |-> Dfs,
    CancelCopyTask |-> Dfs,
    CancelInnerCopyTask |-> Dfs]
DfsDevices == [
    PushAsset |-> Dfs,
    GetDfsSwitchStatus |-> Dfs,
    UpdateDfsSwitchStatus |-> Dfs,
    GetConnectedDeviceList |-> Dfs,
    RegisterFileDfsListener |-> Dfs,
    UnregisterFileDfsListener |-> Dfs,
    IsSameAccountDevice |-> Dfs]
DfsApi == DfsConnections @@ DfsDevices
=============================================================================
