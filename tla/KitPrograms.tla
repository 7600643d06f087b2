------------------------------ MODULE KitPrograms -------------------------------
(***************************************************************************)
(* The two script interfaces on top of CloudSyncManagerImpl, as programs   *)
(* of ClientCalls: the one of the dynamic language (Napi) and the one of   *)
(* the static language (Ani), which goes through classes of its own        *)
(* (Core). Both test the script's arguments, call the native library and   *)
(* turn its codes into their own.                                          *)
(***************************************************************************)
EXTENDS ClientPrograms, Naturals
LOCAL INSTANCE SequencesExt

ErrCodeTable == [
    E_PERMISSION_DENIED |-> "E_PERMISSION", E_PERMISSION_SYSTEM |-> "E_PERMISSION_SYS",
    E_INVAL_ARG |-> "E_PARAMS_", E_BROKEN_IPC |-> "E_IPCSS", E_CLOUD_SDK |-> "E_CLOUD_NOT_READY",
    E_ILLEGAL_URI |-> "E_INVALID_URI", E_SYNC_FAILED_NETWORK_NOT_AVAILABLE |-> "E_NETWORK_ERR",
    E_SYNC_FAILED_BATTERY_TOO_LOW |-> "E_BATTERY_WARNING", E_EXCEED_MAX_SIZE |-> "E_EXCEED_MAX_LIMIT",
    E_RDB |-> "E_IPCSS", E_DEAD_REPLY |-> "E_IPCSS", E_TASK_RUNNING |-> "E_OTHER_TASK_RUNNING",
    E_SA_LOAD_FAILED |-> "E_IPCSS", E_SYSTEM_LOAD_OVER |-> "E_IPCSS",
    E_SERVICE_INNER_ERROR |-> "E_INNER_FAILED", E_VERSION_FILE_NOT_EXIST |-> "E_VERSION_FILE_NO_EXIST",
    E_INNER_RDB |-> "E_INNER_FAILED", E_AGAIN |-> "E_TRY_AGAIN",
    E_OPERATION_DENY |-> "E_OPERATION_NOT_PERMITTED", E_URI_NOT_EXIST |-> "E_NO_FILE_OR_DIR",
    E_INVAL_PARAM |-> "E_INVALID_ARGUMENT", E_UNKNOWN_FAULT |-> "E_UNKNOWN_ERR"]
Convert2ErrNum(ret) == IF ret \in DOMAIN ErrCodeTable THEN ErrCodeTable[ret] ELSE ret
ErrForSingleFileSync == {"ENOENT", "EACCES", "EAGAIN", "EINTR", "ENOSYS", "E_ILLEGAL_URI"}
GetCleanCacheErrPublic(ret) == IF ret \in ErrForSingleFileSync THEN ret ELSE "E_SERVICE_INNER_ERROR"

\* What an interface makes of the native library's result, by function.
KitModes == {"kit", "lenient", "clean", "again", "broken", "sdk", "params"}
KitError(m, ret) ==
    CASE m = "lenient" -> IF ret \in {"E_PERMISSION_DENIED", "E_PERMISSION_SYSTEM"} THEN Convert2ErrNum(ret) ELSE "ok"
      [] m = "clean" -> Convert2ErrNum(GetCleanCacheErrPublic(ret))
      [] m = "again" -> "E_TRY_AGAIN"
      [] m = "broken" -> Convert2ErrNum(IF ret = "E_INVAL_ARG" THEN ret ELSE "E_BROKEN_IPC")
      [] m = "sdk" -> Convert2ErrNum(IF ret = "E_CLOUD_SDK" THEN "E_SERVICE_INNER_ERROR" ELSE ret)
      [] m = "params" -> "E_PARAMS"
      [] OTHER -> Convert2ErrNum(ret)
KitResult(m, ret) == IF ret = "ok" THEN ret ELSE KitError(m, ret)

Args(code, n) == [i \in 1..n |-> Check(code)]
\* The program of a native function, every failure of which is converted and
\* clears the flags set for the call.
Converting(m, undo, program) ==
    [i \in DOMAIN program |->
       LET s == program[i]
       IN  CASE s.k \in {"check", "get", "peek"} -> [s EXCEPT !.code = KitResult(m, @), !.undo = @ \o undo]
             [] s.k = "guard" -> [s EXCEPT !.code = m, !.undo = @ \o undo]
             [] OTHER -> s]
    \o <<Convert(m), ReturnIfFailed(undo)>>
\* A call of a native function, by its name.
Through(m, undo, native) == <<Step("native", m, "none", native, undo)>>
Inlined(program) ==
    FlattenSeq([i \in DOMAIN program |->
                  IF program[i].k = "native"
                    THEN Converting(program[i].code, program[i].undo, SyncApi[program[i].tab])
                    ELSE <<program[i]>>])
Kit(native) == Through("kit", <<>>, native)
\* Nothing is thrown, and nothing done.
Silent == Check("ok")
\* The object's own callback: one that is there already is kept, silently.
Slot(flag) == Step("pend", "ok", "none", flag, <<>>)

-----------------------------------------------------------------------------
(* CloudSyncNapi, FileSyncNapi                                             *)

CloudSyncNapi_Listening ==
    LET InitArgsOnCallback == Check("E_PARAMS")
        InitArgsOffCallback == Check("E_PARAMS")
    IN  [Constructor |-> Args("E_PARAMS", 3),
         OnCallback |->
             <<InitArgsOnCallback, Check("E_PARAMS"), Slot("on")>>
             \o Through("kit", <<"on">>, "RegisterCallback"),
         OffCallback |->
             <<InitArgsOffCallback, Check("E_PARAMS")>> \o Kit("UnRegisterCallback")
             \o <<Do("clear", "on")>>]
\* The observers of files belong to the data observer manager; its codes
\* are thrown as they are.
Observers(code) == Step("elsewhere", code, "none", "none", <<>>)
CloudSyncNapi_Syncing == [
    Start |-> Args("E_PARAMS", 1) \o Kit("StartSync"),
    Stop |-> Args("E_PARAMS", 1) \o Kit("StopSync"),
    CheckRef |-> Check("E_PARAMS")]
CloudSyncNapi_Observing ==
    LET GetRegisterParams == Args("E_PARAMS", 6)
        RegisterToObs ==
            <<Check(Load), Check(Invalid), Observers(Invalid), ReturnIfFailed(<<>>), Do("add", "observer")>>
    IN  [RegisterChange |-> GetRegisterParams \o <<CloudSyncNapi_Syncing.CheckRef>> \o RegisterToObs,
         \* Taken off the list first: an observer that cannot be unregistered is then
         \* known to the manager alone.
         UnregisterFromObs |->
             <<Check(Load), Do("remove", "observer"), Check("E_PARAMS"), Check("E_PARAMS"), Observers("E_PARAMS"),
               ReturnIfFailed(<<>>)>>]
CloudSyncNapi_UnregisterChange ==
    <<Step("listed", "ok", "none", "observer", <<>>), Check("E_PARAMS"), Check("E_PARAMS")>>
    \o CloudSyncNapi_Observing.UnregisterFromObs
CloudSyncNapi_Storage ==
    LET HandOptimizeStorageParams == Check("E_PARAMS")
    IN  [StartOptimizeStorage |->
             <<Check("E_PARAMS"), HandOptimizeStorageParams>> \o Kit("OptimizeStorage"),
         StopOptimizeStorage |-> Kit("StopOptimizeStorage"),
         OptimizeStorage |-> Args("E_PARAMS", 1) \o Kit("OptimizeStorage")]
CloudSyncNapi_States ==
    LET
        \* The state of a file is an attribute of it; no service is asked.
        GetxattrErr == Check("E_UNKNOWN_ERR")
    IN  [GetSingleFileSyncState |->
             <<Check("E_INVALID_URI"), Check("E_INVALID_URI"), Check("E_URIM"), GetxattrErr, GetxattrErr,
               Check("E_PARAMS")>>,
         GetFileSyncStateForBatch |->
             <<Check("E_INVALID_URI"), Check("E_INVALID_URI"), Check("E_URIM"), Check("E_IPCSS"), Check("E_IPCSS"),
               Check("E_PARAMS")>>,
         AsyncComplete |-> Check("E_IPCSS")]
CloudSyncNapi_Batch == [
    GetBatchFileSyncState |->
        Args("E_PARAMS", 2) \o CloudSyncNapi_States.GetFileSyncStateForBatch
        \o <<CloudSyncNapi_States.AsyncComplete>>,
    CheckPermissions |-> <<Check("E_PERMISSION"), Check("E_PERMISSION_SYS")>>]
CloudSyncNapi_GetFileSyncState(batch) ==
    CloudSyncNapi_Batch.CheckPermissions \o Args("E_PARAMS", 1)
    \o IF batch THEN CloudSyncNapi_Batch.GetBatchFileSyncState
       ELSE <<Check("E_PARAMS")>> \o CloudSyncNapi_States.GetSingleFileSyncState
CloudSyncNapi_GetCoreFileSyncState ==
    LET GetxattrErrForPublic == Check("E_INNER_FAILED")
        DoGetCoreFileSyncState == <<GetxattrErrForPublic, GetxattrErrForPublic, Check("E_INNER_FAILED")>>
    IN  Args("EINVAL", 2) \o Args("E_INVALID_URI", 2) \o DoGetCoreFileSyncState

FileSyncNapi_Syncing == [
    GetLastSyncTime |-> <<Check("E_PARAMS"), Check("ENOMEM")>> \o Kit("GetSyncTime"),
    OnCallback |->
        Args("E_PARAMS", 2) \o <<Slot("fileon")>>
        \o Through("kit", <<"fileon">>, "RegisterFileSyncCallback"),
    OffCallback |-> Args("E_PARAMS", 2) \o Kit("UnRegisterFileSyncCallback") \o <<Do("clear", "fileon")>>,
    Start |-> Args("E_PARAMS", 1) \o Kit("StartFileSync")]
FileSyncNapi_Stop == Args("E_PARAMS", 1) \o Kit("StopFileSync")
FileSyncNapi_Uploads ==
    LET CreateUploadListResultArray == Check("E_TRY_AGAIN")
    IN  [GetUploadList |-> Args("EINVAL", 2) \o Kit("GetUploadList") \o <<CreateUploadListResultArray>>,
         PauseUpload |-> Args("E_PARAMS", 2) \o <<Check("E_INVALID_URI")>> \o Kit("PauseUpload"),
         ResumeUpload |-> Args("E_PARAMS", 2) \o <<Check("E_INVALID_URI")>> \o Kit("ResumeUpload")]
FileSyncNapi_Progress == [
    RegisterUploadProgress |->
        Args("E_PARAMS", 2) \o <<Slot("uploadon")>>
        \o Through("kit", <<"uploadon">>, "RegisterUploadCallback"),
    UnRegisterUploadProgress |->
        Args("E_PARAMS", 2) \o Kit("UnRegisterUploadCallback") \o <<Do("clear", "uploadon")>>]

-----------------------------------------------------------------------------
(* CloudFileCacheNapi, CloudFileNapi, CloudFileVersionNapi                 *)

\* downloadInfoMtx_ is held across the start, and the download listed only
\* when it has begun; one download for each uri.
CacheNapi_StartDownloadInner(m) ==
    <<Hold("download")>> \o Through(m, <<>>, "StartFileCache")
    \o <<IfOk("add", "download"), Release("download")>>
CacheNapi_StopDownloadInner(m) ==
    <<Step("listed", "ok", "none", "download", <<>>)>> \o Through(m, <<>>, "StopFileCache")
CacheNapi_StartDownloadInnerBatch(m) ==
    <<Hold("download")>> \o Through(m, <<>>, "StartFileCache")
    \o <<IfOk("add", "download"), Release("download")>>
CacheNapi_Constructor == <<Check("E_INNER_FAILED"), Check("E_PARAMS"), Check("E_INNER_FAILED")>>
CacheNapi_CleanCloudFileCache == <<Check("E_PARAMS"), Check("EINVAL")>> \o Kit("CleanCache")
CacheNapi_Cleaning == [
    CleanFileCache |-> Args("EINVAL", 2) \o Through("clean", <<>>, "CleanFileCache"),
    CleanAllFileCache |-> <<Check("EINVAL"), Silent>> \o Through("again", <<>>, "CleanAllFileCacheOf"),
    GetCachedTotalSize |-> <<Check("EINVAL"), Silent>> \o Through("again", <<>>, "GetCachedTotalSizeOf")]
CacheNapi_StartFileCache == Args("E_PARAMS", 3) \o CacheNapi_StartDownloadInner("broken")
CacheNapi_StopFileCache == Args("E_PARAMS", 4) \o CacheNapi_StopDownloadInner("broken")
CacheNapi_StartBatchFileCache ==
    LET FillParamForBatchStart == Check("EINVAL")
    IN  <<Check("EINVAL"), FillParamForBatchStart, Check("E_INNER_FAILED")>>
        \o CacheNapi_StartDownloadInnerBatch("sdk")
CacheNapi_Lists ==
    LET CreateDownloadListResultArray == Check("E_TRY_AGAIN")
    IN  [GetDownloadList |->
             Args("E_PARAMS", 2) \o Kit("GetDownloadList") \o <<CreateDownloadListResultArray>>,
         StopBatchFileCache |->
             Args("EINVAL", 3) \o <<Check("E_INNER_FAILED")>> \o Through("sdk", <<>>, "StopFileCache")]
CacheNapi_Listening == [
    \* The listeners of downloads are the interface's own.
    On |-> Args("EINVAL", 3) \o Args("E_INNER_FAILED", 2),
    Off |-> Args("EINVAL", 3) \o Args("E_INNER_FAILED", 1)]

CloudFileNapi_Inner == [
    StartDownloadInner |->
        <<Hold("download")>> \o Kit("StartDownloadFile")
        \o <<IfOk("add", "download"), Release("download")>>,
    StopDownloadInner |-> <<Step("listed", "ok", "none", "download", <<>>)>> \o Kit("StopDownloadFile"),
    Constructor |-> Args("E_IPCSS", 2)]
CloudFileNapi_Calls ==
    LET CheckPermissions == <<Check("E_PERMISSION"), Check("E_PERMISSION_SYS")>>
    IN  [Start |-> Args("E_PARAMS", 3) \o CloudFileNapi_Inner.StartDownloadInner,
         On |-> Args("E_PARAMS", 1) \o CheckPermissions \o Args("E_PARAMS", 3) \o Args("E_IPCSS", 1),
         Off |-> Args("E_PARAMS", 1) \o CheckPermissions \o Args("E_PARAMS", 2) \o Args("E_IPCSS", 1)]
CloudFileNapi_Stop == Args("E_PARAMS", 3) \o CloudFileNapi_Inner.StopDownloadInner

VersionNapi_Versions ==
    LET GetHistoryVersionListParam == Check("EINVAL")
        AsyncComplete == Check("E_IPCSS")
    IN  [Constructor |-> Args("EINVAL", 2),
         GetHistoryVersionList |->
             <<GetHistoryVersionListParam, Check("EINVAL")>> \o Kit("GetHistoryVersionList")
             \o <<AsyncComplete>>]
VersionNapi_Downloading ==
    LET GetDownloadVersionParam == Check("EINVAL")
    IN  [DownloadHistoryVersion |->
             <<GetDownloadVersionParam, Check("EINVAL"), Check("E_INNER_FAILED"), Check("E_INNER_FAILED")>>
             \o Kit("DownloadHistoryVersion"),
         GetReplaceVersionListParam |-> Check("EINVAL")]
VersionNapi_Replacing == [
    ReplaceFileWithHistoryVersion |->
        <<VersionNapi_Downloading.GetReplaceVersionListParam, Check("EINVAL")>>
        \o Kit("ReplaceFileWithHistoryVersion"),
    IsConflict |-> Args("EINVAL", 3) \o Kit("IsFileConflict"),
    ClearFileConflict |-> Args("EINVAL", 3) \o Kit("ClearFileConflict")]

-----------------------------------------------------------------------------
(* CloudSyncManagerNExporter, DowngradeDownloadNapi                        *)

\* Of what the service says, these six tell the script of a missing
\* permission only.
Lenient(native) == Through("lenient", <<>>, native)
ManagerNapi_Notifying == [
    ChangeAppCloudSwitch |-> Args("E_PARAMS", 4) \o Lenient("ChangeAppSwitch"),
    NotifyDataChangeInner |-> Args("E_PARAMS", 2) \o Lenient("NotifyDataChange")]
ManagerNapi_NotifyEventChange == Args("E_PARAMS", 4) \o Lenient("NotifyEventChange")
ManagerNapi_NotifyDataChange(event) ==
    <<Check("E_PARAMS")>>
    \o IF event THEN ManagerNapi_NotifyEventChange ELSE ManagerNapi_Notifying.NotifyDataChangeInner
ManagerNapi_DisableCloud == Args("E_PARAMS", 2) \o Lenient("DisableCloud")
ManagerNapi_Switches ==
    LET ParseSwitches == Check("E_PARAMS")
    IN  [EnableCloud |-> Args("E_PARAMS", 2) \o <<ParseSwitches>> \o Lenient("EnableCloud"),
         ParseAppActions |-> Check("E_PARAMS")]
ManagerNapi_Cleaning ==
    LET AsyncCompleteLocalFilePresentStatus == Check("E_IPCSS")
    IN  [Clean |-> Args("E_PARAMS", 2) \o <<ManagerNapi_Switches.ParseAppActions>> \o Lenient("Clean"),
         GetBundlesLocalFilePresentStatus |->
             Args("E_INVALID_ARGUMENT", 2) \o Kit("GetBundlesLocalFilePresentStatus")
             \o <<AsyncCompleteLocalFilePresentStatus>>,
         AsyncCompleteDowngradeProgress |-> Check("E_TRY_AGAIN")]
ManagerNapi_GetDowngradeDownloadTaskState ==
    Args("E_INVALID_ARGUMENT", 2) \o Kit("GetDowngradeDownloadTaskState")
    \o <<ManagerNapi_Cleaning.AsyncCompleteDowngradeProgress>>

DowngradeNapi_CheckPermissions == <<Check("E_PERMISSION"), Check("E_PERMISSION_SYS")>>
DowngradeNapi_Constructor == Args("EINVAL", 1) \o DowngradeNapi_CheckPermissions \o Args("EINVAL", 2)
DowngradeNapi_Downloads == [
    StartDownload |-> Args("EINVAL", 2) \o Args("E_INNER_FAILED", 2) \o Kit("StartDowngrade"),
    StopDownload |-> Args("E_INNER_FAILED", 1) \o Kit("StopDowngrade"),
    GetTransferParam |-> Check("E_INVALID_ARGUMENT")]
DowngradeNapi_Transfers == [
    StartTransfer |->
        <<Check("E_INVALID_ARGUMENT"), DowngradeNapi_Downloads.GetTransferParam>> \o Args("E_TRY_AGAIN", 2)
        \o Kit("StartTransfer"),
    GetCloudFileInfo |-> Args("E_INNER_FAILED", 1) \o Kit("GetCloudFileInfo")]

JsApi == [
    CloudSync_new |-> CloudSyncNapi_Listening.Constructor,
    CloudSync_on |-> CloudSyncNapi_Listening.OnCallback,
    CloudSync_off |-> CloudSyncNapi_Listening.OffCallback, CloudSync_start |-> CloudSyncNapi_Syncing.Start,
    CloudSync_stop |-> CloudSyncNapi_Syncing.Stop,
    registerChange |-> CloudSyncNapi_Observing.RegisterChange,
    unregisterChange |-> CloudSyncNapi_UnregisterChange,
    startOptimizeSpace |-> CloudSyncNapi_Storage.StartOptimizeStorage,
    stopOptimizeSpace |-> CloudSyncNapi_Storage.StopOptimizeStorage,
    optimizeStorage |-> CloudSyncNapi_Storage.OptimizeStorage,
    getFileSyncState |-> CloudSyncNapi_GetFileSyncState(FALSE),
    getFileSyncStates |-> CloudSyncNapi_GetFileSyncState(TRUE),
    getCoreFileSyncState |-> CloudSyncNapi_GetCoreFileSyncState,
    getLastSyncTime |-> FileSyncNapi_Syncing.GetLastSyncTime,
    FileSync_on |-> FileSyncNapi_Syncing.OnCallback, FileSync_off |-> FileSyncNapi_Syncing.OffCallback,
    FileSync_start |-> FileSyncNapi_Syncing.Start, FileSync_stop |-> FileSyncNapi_Stop,
    getUploadList |-> FileSyncNapi_Uploads.GetUploadList, pauseUpload |-> FileSyncNapi_Uploads.PauseUpload,
    resumeUpload |-> FileSyncNapi_Uploads.ResumeUpload,
    onUploadProgress |-> FileSyncNapi_Progress.RegisterUploadProgress,
    offUploadProgress |-> FileSyncNapi_Progress.UnRegisterUploadProgress,
    Cache_new |-> CacheNapi_Constructor, cleanCache |-> CacheNapi_CleanCloudFileCache,
    cleanFileCache |-> CacheNapi_Cleaning.CleanFileCache,
    cleanAllFileCache |-> CacheNapi_Cleaning.CleanAllFileCache,
    getCachedTotalSize |-> CacheNapi_Cleaning.GetCachedTotalSize, Cache_start |-> CacheNapi_StartFileCache,
    Cache_stop |-> CacheNapi_StopFileCache, startBatch |-> CacheNapi_StartBatchFileCache,
    stopBatch |-> CacheNapi_Lists.StopBatchFileCache, getDownloadList |-> CacheNapi_Lists.GetDownloadList,
    Cache_on |-> CacheNapi_Listening.On, Cache_off |-> CacheNapi_Listening.Off,
    Download_new |-> CloudFileNapi_Inner.Constructor, Download_start |-> CloudFileNapi_Calls.Start,
    Download_stop |-> CloudFileNapi_Stop, Download_on |-> CloudFileNapi_Calls.On,
    Download_off |-> CloudFileNapi_Calls.Off, Version_new |-> VersionNapi_Versions.Constructor,
    getHistoryVersionList |-> VersionNapi_Versions.GetHistoryVersionList,
    downloadHistoryVersion |-> VersionNapi_Downloading.DownloadHistoryVersion,
    replaceFileWithHistoryVersion |-> VersionNapi_Replacing.ReplaceFileWithHistoryVersion,
    isFileConflict |-> VersionNapi_Replacing.IsConflict,
    clearFileConflict |-> VersionNapi_Replacing.ClearFileConflict,
    changeAppCloudSwitch |-> ManagerNapi_Notifying.ChangeAppCloudSwitch,
    notifyDataChange |-> ManagerNapi_NotifyDataChange(FALSE),
    notifyEventChange |-> ManagerNapi_NotifyDataChange(TRUE), disableCloud |-> ManagerNapi_DisableCloud,
    enableCloud |-> ManagerNapi_Switches.EnableCloud, clean |-> ManagerNapi_Cleaning.Clean,
    getBundlesLocalFilePresentStatus |-> ManagerNapi_Cleaning.GetBundlesLocalFilePresentStatus,
    getDowngradeDownloadTaskState |-> ManagerNapi_GetDowngradeDownloadTaskState,
    Downgrade_new |-> DowngradeNapi_Constructor, startDownload |-> DowngradeNapi_Downloads.StartDownload,
    stopDownload |-> DowngradeNapi_Downloads.StopDownload,
    startTransfer |-> DowngradeNapi_Transfers.StartTransfer,
    getCloudFileInfo |-> DowngradeNapi_Transfers.GetCloudFileInfo]

-----------------------------------------------------------------------------
(* The classes of the static interface                                     *)

\* A failed registration leaves the object's callback in place.
CloudSyncCore_Constructor == Check("ENOMEM")
CloudSyncCore == [
    DoOn |-> <<Check("E_PARAMS"), Slot("on")>> \o Kit("RegisterCallback"),
    DoOff |-> <<Check("E_PARAMS")>> \o Kit("UnRegisterCallback") \o <<Do("clear", "on")>>,
    DoStart |-> Kit("StartSync"),
    DoStop |-> Kit("StopSync"),
    DoOptimizeStorage |-> Kit("OptimizeStorage"),
    DoStartOptimizeStorage |-> Kit("OptimizeStorage"),
    DoStopOptimizeStorage |-> Kit("StopOptimizeStorage"),
    DoGetFileSyncState |-> Args("EINVAL", 4)]
CloudSyncCore_DoGetCoreFileSyncState == Args("EINVAL", 4) \o <<Check("E_INNER_FAILED")>>
FileSyncCore_Constructor == <<Check("E_PARAMS"), Check("ENOMEM")>>
FileSyncCore == [
    DoOn |-> <<Check("E_PARAMS"), Slot("fileon")>> \o Kit("RegisterFileSyncCallback"),
    DoOff |-> <<Check("E_PARAMS")>> \o Kit("UnRegisterFileSyncCallback") \o <<Do("clear", "fileon")>>,
    DoStart |-> Kit("StartFileSync"),
    DoStop |-> Kit("StopFileSync"),
    DoGetLastSyncTime |-> Kit("GetSyncTime"),
    DoRegisterUploadProgress |-> <<Slot("uploadon")>> \o Kit("RegisterUploadCallback"),
    DoUnRegisterUploadProgress |-> Kit("UnRegisterUploadCallback") \o <<Do("clear", "uploadon")>>,
    DoGetUploadList |-> Kit("GetUploadList"),
    DoPauseUpload |-> <<Check("E_INVALID_URI")>> \o Kit("PauseUpload")]
FileSyncCore_DoResumeUpload == <<Check("E_INVALID_URI")>> \o Kit("ResumeUpload")
CacheAni_StopDownloadInner(m) ==
    <<Step("listed", "ok", "none", "download", <<>>)>> \o Through(m, <<>>, "StopFileCache")
CacheAni_StartDownloadInnerBatch ==
    <<Hold("download")>> \o Through("sdk", <<>>, "StartFileCache")
    \o <<IfOk("add", "download"), Release("download")>>
Ani_DownloadInner == [
    CacheAni_StartDownloadInner |->
        <<Hold("download")>> \o Kit("StartFileCache") \o <<IfOk("add", "download"), Release("download")>>,
    DownloadAni_StartDownloadInner |->
        <<Hold("download")>> \o Kit("StartDownloadFile")
        \o <<IfOk("add", "download"), Release("download")>>,
    DownloadAni_StopDownloadInner |->
        <<Step("listed", "ok", "none", "download", <<>>)>> \o Kit("StopDownloadFile")]
CacheCore == [
    DoStart |-> Ani_DownloadInner.CacheAni_StartDownloadInner,
    DoStartBatch |-> CacheAni_StartDownloadInnerBatch,
    DoStop |-> <<Check("E_IPCSS")>> \o CacheAni_StopDownloadInner("broken"),
    DoStopBatch |-> <<Check("EINVAL")>> \o Kit("StopFileCache"),
    CleanCache |-> Kit("CleanCache"),
    CleanFileCache |-> Kit("CleanFileCache"),
    GetDownloadList |-> Kit("GetDownloadList")]
CacheCore_GetCachedTotalSize(m) == Through(m, <<>>, "GetCachedTotalSizeOf")
CacheCore_CleanAllFileCache(m) == Through(m, <<>>, "CleanAllFileCacheOf")
CloudFileCore_DoStart == Ani_DownloadInner.DownloadAni_StartDownloadInner
\* The only native code a class throws as it is.
CloudFileCore_DoStop == <<Check(Invalid)>> \o Ani_DownloadInner.DownloadAni_StopDownloadInner
FileVersionCore == [
    Constructor |-> Check("ENOMEM"),
    GetHistoryVersionList |-> Kit("GetHistoryVersionList"),
    DownloadHistoryVersion |-> Kit("DownloadHistoryVersion"),
    ReplaceFileWithHistoryVersion |-> Kit("ReplaceFileWithHistoryVersion"),
    IsConflict |-> Kit("IsFileConflict"),
    ClearFileConflict |-> Kit("ClearFileConflict")]
ManagerCore == [
    DoChangeAppCloudSwitch |-> Lenient("ChangeAppSwitch"),
    DoNotifyEventChange |-> Lenient("NotifyEventChange"),
    DoNotifyDataChange |-> Lenient("NotifyDataChange"),
    DoDisableCloud |-> Lenient("DisableCloud"),
    DoEnableCloud |-> Lenient("EnableCloud"),
    DoClean |-> Lenient("Clean"),
    DoGetLocalFilePresentStatus |->
        <<Check("E_INVALID_ARGUMENT")>> \o Kit("GetBundlesLocalFilePresentStatus"),
    DoGetDowngradeTaskState |-> <<Check("E_INVALID_ARGUMENT")>> \o Kit("GetDowngradeDownloadTaskState")]
DowngradeCore == [
    Constructor |-> <<Check("EINVAL"), Check("ENOMEM")>>,
    GetCloudFileInfo |-> Kit("GetCloudFileInfo"),
    StartDownload |-> Kit("StartDowngrade"),
    StopDownload |-> Kit("StopDowngrade"),
    StartTransfer |-> Kit("StartTransfer")]

-----------------------------------------------------------------------------
(* The functions of the static interface                                   *)

CloudSyncAni_Syncing == [
    Constructor |-> Args("ENOMEM", 2) \o <<CloudSyncCore_Constructor, Check("ENOMEM")>>,
    On |-> Args("E_IPCSS", 2) \o CloudSyncCore.DoOn,
    Off0 |-> Args("E_IPCSS", 2) \o CloudSyncCore.DoOff,
    Off1 |-> Args("E_IPCSS", 1) \o CloudSyncCore.DoOff,
    Start |-> Args("E_PERMISSION", 1) \o CloudSyncCore.DoStart,
    Stop |-> Args("E_PERMISSION", 1) \o CloudSyncCore.DoStop,
    OptimizeStorage |-> CloudSyncCore.DoOptimizeStorage]
CloudSyncAni_States ==
    LET CheckIsValidUri == Check("E_INVALID_URI")
    IN  [StartOptimizeStorage |-> Args("E_IPCSS", 3) \o CloudSyncCore.DoStartOptimizeStorage,
         StopOptimizeStorage |-> CloudSyncCore.DoStopOptimizeStorage,
         GetFileSyncState |-> <<Check("E_IPCSS"), CheckIsValidUri>> \o CloudSyncCore.DoGetFileSyncState,
         GetCoreFileSyncState |->
             <<Check("E_INNER_FAILED"), CheckIsValidUri>> \o CloudSyncCore_DoGetCoreFileSyncState]
CloudSyncAni_RegisterChange ==
    LET GetRegisterParams == Args("E_PARAMS", 3)
        CheckRef == Check("E_PARAMS")
        RegisterToObs == Args("E_PARAMS", 2) \o <<Observers("E_PARAMS"), ReturnIfFailed(<<>>), Do("add", "observer")>>
    IN  GetRegisterParams \o <<CheckRef>> \o RegisterToObs
CloudSyncAni_UnRegisterChange ==
    LET UnregisterFromObs ==
            <<Check("E_PARAMS"), Check("E_IPCSS"), Do("remove", "observer"), Observers("E_PARAMS"),
              ReturnIfFailed(<<>>)>>
    IN  <<Step("listed", "ok", "none", "observer", <<>>), Check("E_PARAMS")>> \o UnregisterFromObs
FileSyncAni_Listening == [
    Constructor0 |-> Args("ENOMEM", 2) \o FileSyncCore_Constructor \o Args("ENOMEM", 1),
    Constructor1 |-> Args("ENOMEM", 3) \o FileSyncCore_Constructor \o Args("ENOMEM", 1),
    On |-> Args("E_IPCSS", 2) \o FileSyncCore.DoOn,
    Off0 |-> Args("E_IPCSS", 2) \o FileSyncCore.DoOff,
    Off1 |-> Args("E_IPCSS", 1) \o FileSyncCore.DoOff]
FileSyncAni_Running == [
    Start |-> Args("E_IPCSS", 1) \o FileSyncCore.DoStart,
    Stop |-> Args("E_IPCSS", 1) \o FileSyncCore.DoStop,
    GetLastSyncTime |-> Args("E_IPCSS", 1) \o FileSyncCore.DoGetLastSyncTime,
    RegisterUploadProgress |-> Args("E_TRY_AGAIN", 2) \o FileSyncCore.DoRegisterUploadProgress,
    UnRegisterUploadProgress |-> Args("E_TRY_AGAIN", 1) \o FileSyncCore.DoUnRegisterUploadProgress,
    \* A list that cannot be built is null, and nothing is thrown.
    FindUploadProgressClass |-> Silent]
FileSyncAni_Lists ==
    LET GetUploadEnums == Silent
        GetUploadEnumItems == Silent
        ConvertUploadProgressObjToInner ==
            <<FileSyncAni_Running.FindUploadProgressClass, GetUploadEnums, GetUploadEnumItems,
              Step("fill", "ok", "none", "none", <<>>)>>
        CreateProgressArray == Silent
    IN  [GetUploadList |->
             Args("E_TRY_AGAIN", 2) \o FileSyncCore.DoGetUploadList
             \o <<CreateProgressArray>> \o ConvertUploadProgressObjToInner,
         PauseUpload |-> Args("E_TRY_AGAIN", 2) \o FileSyncCore.DoPauseUpload]
FileSyncAni_ResumeUpload == Args("E_TRY_AGAIN", 2) \o FileSyncCore_DoResumeUpload
CacheAni_Listening == [
    Constructor |-> Args("ENOMEM", 3),
    ConstructorWithBundleName |-> Args("E_IPCSS", 1) \o Args("ENOMEM", 3),
    On |-> Args("E_IPCSS", 2),
    Off0 |-> Args("E_IPCSS", 2)]
CacheAni_Running == [
    Start |-> Args("E_IPCSS", 2) \o CacheCore.DoStart,
    StartBatch |-> Args("E_IPCSS", 2) \o CacheCore.DoStartBatch,
    Stop |-> Args("E_IPCSS", 2) \o CacheCore.DoStop,
    StopBatch |-> Args("E_IPCSS", 1) \o CacheCore.DoStopBatch,
    CleanCache |-> Args("E_IPCSS", 2) \o CacheCore.CleanCache,
    CleanFileCache |-> Args("E_INNER_FAILED", 2) \o CacheCore.CleanFileCache]
CacheAni_Batch == [
    \* Whatever code the class gives, the script is told to try again.
    CleanFileCache1 |-> Args("E_TRY_AGAIN", 1) \o CacheCore_CleanAllFileCache("again"),
    OnBatch |-> Args("E_IPCSS", 2),
    OffBatch |-> Args("E_IPCSS", 2),
    FindDownloadProgressClass |-> Silent]
CacheAni_Lists ==
    LET GetDownloadEnums == Silent
        GetDownloadEnumItems == Silent
        ConvertDownloadProgressObjToInner ==
            <<CacheAni_Batch.FindDownloadProgressClass, GetDownloadEnums, GetDownloadEnumItems,
              Step("fill", "ok", "none", "none", <<>>)>>
        CreateProgressArray == Silent
    IN  [GetDownloadList |->
             Args("E_TRY_AGAIN", 2) \o CacheCore.GetDownloadList
             \o <<CreateProgressArray>> \o ConvertDownloadProgressObjToInner,
         GetCachedTotalSize |-> Args("E_TRY_AGAIN", 1) \o CacheCore_GetCachedTotalSize("again")]
DownloadAni_Listening ==
    LET CheckPermissions == <<Check("E_PERMISSION"), Check("E_PERMISSION_SYS")>>
    IN  [Constructor |-> Args("ENOMEM", 3),
         On |-> CheckPermissions \o Args("E_IPCSS", 2),
         Off0 |-> CheckPermissions \o Args("E_IPCSS", 2)]
DownloadAni_Running == [
    Start |-> Args("E_IPCSS", 2) \o CloudFileCore_DoStart,
    Stop |-> Args("E_IPCSS", 3) \o CloudFileCore_DoStop]
\* An array as long as the native list, in which an element that cannot be
\* converted leaves a hole at the end.
FilledArray(code) == Step("fill", code, "none", "none", <<>>)
VersionAni_GetHistoryArray ==
    LET GetAniArrayObject == Args("E_INNER_FAILED", 3) \o <<FilledArray("E_INNER_FAILED")>>
    IN  Args("E_INNER_FAILED", 2) \o GetAniArrayObject
VersionAni_Versions == [
    Constructor |-> Args("E_INNER_FAILED", 2) \o <<FileVersionCore.Constructor, Check("E_INNER_FAILED")>>,
    GetHistoryVersionList |->
        <<Check("EINVAL"), Check("E_INNER_FAILED"), Check("EINVAL"), Check("E_INNER_FAILED")>>
        \o FileVersionCore.GetHistoryVersionList \o VersionAni_GetHistoryArray,
    GetDownloadVersionParam |-> Check("EINVAL")]
VersionAni_Replacing == [
    DownloadHistoryVersion |->
        <<VersionAni_Versions.GetDownloadVersionParam>> \o Args("E_INNER_FAILED", 2)
        \o FileVersionCore.DownloadHistoryVersion \o Args("E_INNER_FAILED", 1),
    ReplaceFileWithHistoryVersion |->
        Args("E_INNER_FAILED", 2) \o <<Check("EINVAL"), Check("E_INNER_FAILED")>>
        \o FileVersionCore.ReplaceFileWithHistoryVersion,
    IsFileConflict |->
        <<Check("E_INNER_FAILED"), Check("EINVAL"), Check("E_INNER_FAILED")>> \o FileVersionCore.IsConflict,
    ClearFileConflict |->
        <<Check("E_INNER_FAILED"), Check("EINVAL"), Check("E_INNER_FAILED")>> \o FileVersionCore.ClearFileConflict]
ManagerAni_Switches ==
    LET ParseSwitches == Check("E_PARAMS")
    IN  [ChangeAppCloudSwitch |-> Args("E_PERMISSION", 2) \o ManagerCore.DoChangeAppCloudSwitch,
         NotifyDataChange |-> Args("E_PERMISSION", 2) \o ManagerCore.DoNotifyDataChange,
         EnableCloud |-> Args("E_PERMISSION", 2) \o <<ParseSwitches>> \o ManagerCore.DoEnableCloud,
         DisableCloud |-> Args("E_PERMISSION", 1) \o ManagerCore.DoDisableCloud]
ManagerAni_Cleaning ==
    LET ParseAppActions == Check("E_PARAMS")
    IN  [Clean |-> Args("E_PERMISSION", 2) \o <<ParseAppActions>> \o ManagerCore.DoClean,
         NotifyEventChange |-> Args("E_IPCSS", 4) \o ManagerCore.DoNotifyEventChange]
ManagerAni_GetBundlesLocalFilePresentStatus ==
    LET GetAniArrayObject == Args("E_INNER_FAILED", 3) \o <<FilledArray("E_INNER_FAILED")>>
        CreateLocalFilePresentStatusArray == Args("E_INNER_FAILED", 2) \o GetAniArrayObject
    IN  Args("E_IPCSS", 1) \o ManagerCore.DoGetLocalFilePresentStatus
        \o CreateLocalFilePresentStatusArray
ManagerAni_GetDowngradeDownloadTaskState ==
    LET GetDowngradeProgressAniArrayObject == Args("E_TRY_AGAIN", 3) \o <<FilledArray("E_TRY_AGAIN")>>
        CreateDowngradeProgressArray == Args("E_TRY_AGAIN", 2) \o GetDowngradeProgressAniArrayObject
    IN  Args("E_TRY_AGAIN", 1) \o ManagerCore.DoGetDowngradeTaskState \o CreateDowngradeProgressArray
DowngradeAni_Downloads == [
    Constructor |-> Args("E_INNER_FAILED", 3) \o DowngradeCore.Constructor \o Args("E_INNER_FAILED", 1),
    GetCloudFileInfo |->
        Args("E_INNER_FAILED", 1) \o DowngradeCore.GetCloudFileInfo \o <<Check("E_INNER_FAILED"), Silent, Silent>>,
    StartDownload |-> Args("E_INNER_FAILED", 2) \o DowngradeCore.StartDownload,
    StopDownload |-> Args("E_INNER_FAILED", 1) \o DowngradeCore.StopDownload]
DowngradeAni_StartTransfer == Args("E_TRY_AGAIN", 3) \o DowngradeCore.StartTransfer

AniApi == [
    CloudSync_new |-> CloudSyncAni_Syncing.Constructor, CloudSync_on |-> CloudSyncAni_Syncing.On,
    CloudSync_off |-> CloudSyncAni_Syncing.Off0, CloudSync_offAll |-> CloudSyncAni_Syncing.Off1,
    CloudSync_start |-> CloudSyncAni_Syncing.Start, CloudSync_stop |-> CloudSyncAni_Syncing.Stop,
    registerChange |-> CloudSyncAni_RegisterChange, unregisterChange |-> CloudSyncAni_UnRegisterChange,
    optimizeStorage |-> CloudSyncAni_Syncing.OptimizeStorage,
    startOptimizeSpace |-> CloudSyncAni_States.StartOptimizeStorage,
    stopOptimizeSpace |-> CloudSyncAni_States.StopOptimizeStorage,
    getFileSyncState |-> CloudSyncAni_States.GetFileSyncState,
    getCoreFileSyncState |-> CloudSyncAni_States.GetCoreFileSyncState,
    FileSync_new |-> FileSyncAni_Listening.Constructor0,
    FileSync_newOf |-> FileSyncAni_Listening.Constructor1, FileSync_on |-> FileSyncAni_Listening.On,
    FileSync_off |-> FileSyncAni_Listening.Off0, FileSync_offAll |-> FileSyncAni_Listening.Off1,
    FileSync_start |-> FileSyncAni_Running.Start, FileSync_stop |-> FileSyncAni_Running.Stop,
    getLastSyncTime |-> FileSyncAni_Running.GetLastSyncTime,
    onUploadProgress |-> FileSyncAni_Running.RegisterUploadProgress,
    offUploadProgress |-> FileSyncAni_Running.UnRegisterUploadProgress,
    getUploadList |-> FileSyncAni_Lists.GetUploadList, pauseUpload |-> FileSyncAni_Lists.PauseUpload,
    resumeUpload |-> FileSyncAni_ResumeUpload, Cache_new |-> CacheAni_Listening.Constructor,
    Cache_newOf |-> CacheAni_Listening.ConstructorWithBundleName, Cache_on |-> CacheAni_Listening.On,
    Cache_off |-> CacheAni_Listening.Off0, Cache_onBatch |-> CacheAni_Batch.OnBatch,
    Cache_offBatch |-> CacheAni_Batch.OffBatch, Cache_start |-> CacheAni_Running.Start,
    startBatch |-> CacheAni_Running.StartBatch, Cache_stop |-> CacheAni_Running.Stop,
    stopBatch |-> CacheAni_Running.StopBatch, cleanCache |-> CacheAni_Running.CleanCache,
    cleanFileCache |-> CacheAni_Running.CleanFileCache,
    cleanAllFileCache |-> CacheAni_Batch.CleanFileCache1,
    getDownloadList |-> CacheAni_Lists.GetDownloadList,
    getCachedTotalSize |-> CacheAni_Lists.GetCachedTotalSize,
    Download_new |-> DownloadAni_Listening.Constructor, Download_on |-> DownloadAni_Listening.On,
    Download_off |-> DownloadAni_Listening.Off0, Download_start |-> DownloadAni_Running.Start,
    Download_stop |-> DownloadAni_Running.Stop, Version_new |-> VersionAni_Versions.Constructor,
    getHistoryVersionList |-> VersionAni_Versions.GetHistoryVersionList,
    downloadHistoryVersion |-> VersionAni_Replacing.DownloadHistoryVersion,
    replaceFileWithHistoryVersion |-> VersionAni_Replacing.ReplaceFileWithHistoryVersion,
    isFileConflict |-> VersionAni_Replacing.IsFileConflict,
    clearFileConflict |-> VersionAni_Replacing.ClearFileConflict,
    changeAppCloudSwitch |-> ManagerAni_Switches.ChangeAppCloudSwitch,
    notifyDataChange |-> ManagerAni_Switches.NotifyDataChange,
    enableCloud |-> ManagerAni_Switches.EnableCloud, disableCloud |-> ManagerAni_Switches.DisableCloud,
    clean |-> ManagerAni_Cleaning.Clean, notifyEventChange |-> ManagerAni_Cleaning.NotifyEventChange,
    getBundlesLocalFilePresentStatus |-> ManagerAni_GetBundlesLocalFilePresentStatus,
    getDowngradeDownloadTaskState |-> ManagerAni_GetDowngradeDownloadTaskState,
    Downgrade_new |-> DowngradeAni_Downloads.Constructor,
    startDownload |-> DowngradeAni_Downloads.StartDownload,
    stopDownload |-> DowngradeAni_Downloads.StopDownload, startTransfer |-> DowngradeAni_StartTransfer,
    getCloudFileInfo |-> DowngradeAni_Downloads.GetCloudFileInfo]
=============================================================================
