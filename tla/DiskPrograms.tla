------------------------------ MODULE DiskPrograms ------------------------------
(***************************************************************************)
(* The client library of the cloud disk service and the C interface on top *)
(* of it, as programs of ClientCalls.                                      *)
(***************************************************************************)
EXTENDS ClientPrograms

IpcFailed == "E_IPC_FAILED"
InvalidArg == "E_INVALID_ARG"
CheckSyncFolderRegistered == Check("E_SYNC_FOLDER_NOT_REGISTERED")
GetDisk == Get(IpcFailed)
CallThenLink == <<GetDisk, Call>> \o SetDeathRecipient
LinkThenCall == <<GetDisk>> \o SetDeathRecipient \o <<Call>>

-----------------------------------------------------------------------------
(* CloudDiskServiceManagerImpl                                             *)

DiskChanges == [
    \* callback_ is set, and forgotten, whatever the service said.
    RegisterSyncFolderChanges |->
        <<Check(InvalidArg), GetDisk, Reg("change"), Do("add", "change")>> \o SetDeathRecipient,
    UnregisterSyncFolderChanges |-> <<GetDisk, Unreg("change"), Do("remove", "change")>> \o SetDeathRecipient,
    RegisterCallbackTable |->
        <<Check(InvalidArg), GetDisk, Check("E_TRY_AGAIN"), Reg("table"), IfOk("add", "table")>> \o SetDeathRecipient,
    \* The table is switched off while the service is asked to forget it.
    UnregisterCallbackTable |->
        <<GetDisk, Do("deactivate", "table"), Unreg("table"), IfOk("remove", "table"), IfFailed("activate", "table")>>
        \o SetDeathRecipient,
    GetSyncFolderChanges |-> CallThenLink]
DiskFolders == [
    SetFileSyncStates |-> CallThenLink,
    GetFileSyncStates |-> CallThenLink,
    CreatePlaceholderFile |-> CallThenLink,
    IsPlaceholderFile |-> CallThenLink,
    RegisterSyncFolder |-> CallThenLink,
    UnregisterSyncFolder |-> CallThenLink]
DiskHydration == [
    UnregisterForSa |-> CallThenLink,
    ConvertPlaceholderToFile |-> LinkThenCall,
    MarkFileAsPlaceholder |-> LinkThenCall,
    UnmarkPlaceholderFile |-> LinkThenCall,
    StartHydration |-> LinkThenCall,
    CancelHydration |-> LinkThenCall,
    Execute |-> LinkThenCall]
DiskPlaceholders == [
    DehydrateFile |-> LinkThenCall,
    UpdatePlaceholder |-> LinkThenCall,
    GetPlaceholderCustomInfo |-> LinkThenCall,
    StartHydrationByPath |-> <<CheckSyncFolderRegistered>> \o LinkThenCall,
    DehydrateFileByPath |-> <<CheckSyncFolderRegistered>> \o LinkThenCall]

ProgressClient == [
    \* progressMutex_ is held across the call; a callback that was listed
    \* already is not taken out when the call fails.
    AddProgress |-> Step("addonce", "E_CALLBACK_ALREADY_REGISTERED", "add", "progress", <<>>),
    RemoveProgress |-> Step("takeout", "E_CALLBACK_NOT_REGISTERED", "remove", "progress", <<>>)]
RemoveIfAdded == Step("ifadded", "ok", "remove", "progress", <<>>)
DiskProgress == [
    GetPlaceholderState |-> LinkThenCall,
    RegisterProgressCallback |->
        <<Check(InvalidArg), CheckSyncFolderRegistered, Hold("progress"), GetDisk, Check("E_TRY_AGAIN"),
          ProgressClient.AddProgress>>
        \o SetDeathRecipient \o <<Reg("progress"), RemoveIfAdded>>,
    UnregisterProgressCallback |->
        <<Check(InvalidArg), Hold("progress"), ProgressClient.RemoveProgress, CheckSyncFolderRegistered, GetDisk,
          Unreg("progress")>>]

-----------------------------------------------------------------------------
(* The C interface                                                         *)

\* Codes the interface names are its own, every other is "try again".
InnerToNErrTable == {
    "ok", "E_PERM", "E_ACCES", "E_INVALID_ARG", "E_SYNC_FOLDER_PATH_UNAUTHORIZED", "E_IPC_FAILED",
    "E_SYNC_FOLDER_LIMIT_EXCEEDED", "E_CONFLICT_THIS_APP", "E_CONFLICT_OTHER_APP",
    "E_REGISTER_SYNC_FOLDER_FAILED", "E_SYNC_FOLDER_NOT_REGISTERED", "E_UNREGISTER_SYNC_FOLDER_FAILED",
    "E_SYNC_FOLDER_PATH_NOT_EXIST", "E_LISTENER_NOT_REGISTERED", "E_LISTENER_ALREADY_REGISTERED",
    "E_INVALID_CHANGE_SEQUENCE", "E_TRY_AGAIN", "E_NOT_A_PLACEHOLDER", "E_IS_A_PLACEHOLDER",
    "E_HYDRATE_IN_PROGRESS", "E_NOT_ALLOWED", "E_FILE_ALREADY_EXISTS", "E_NO_SPACE_LEFT",
    "E_CALLBACK_NOT_REGISTERED", "E_CALLBACK_ALREADY_REGISTERED", "E_NOT_A_DIRECTORY", "E_FILE_NOT_EXIST",
    "E_NAME_TOO_LONG", "E_FILE_TOO_LARGE", "E_PLACEHOLDER_CUSTOM_INFO_NOT_FOUND",
    "E_PLACEHOLDER_NOT_FULLY_HYDRATED", "E_DEHYDRATE_DENIED", "E_CANCELLED", "E_ALREADY_HYDRATED",
    "E_NO_HYDRATION_IN_PROGRESS", "E_INVALID_PLACEHOLDER_STATE", "E_HYDRATION_TASK_LIMIT_REACHED",
    "E_NOT_SUPPORTED", "E_PERMISSION_DENIED"}
ConvertToErrorCode(ret) ==
    CASE ret \notin InnerToNErrTable -> "E_TRY_AGAIN"
      [] ret \in {"E_PERM", "E_ACCES"} -> "E_PERMISSION_DENIED"
      [] OTHER -> ret

IsValidPathInfo == Check(InvalidArg)
ConvertPlaceholderCustomInfo == Check(InvalidArg)
\* The sync folder manager, which belongs to another service.
Elsewhere == Step("elsewhere", "ok", "none", "none", <<>>)
\* Filling the caller's list, each element with memory of its own; elements
\* for which there is none are left out, left unfilled, or end the call.
Allocated == Step("fill", "E_TRY_AGAIN", "none", "none", <<>>)
ToC == Convert("ndk")

OH_Changes == [
    OH_RegisterSyncFolderChanges |->
        <<IsValidPathInfo, Check(InvalidArg)>> \o DiskChanges.RegisterSyncFolderChanges \o <<ToC>>,
    OH_UnregisterSyncFolderChanges |-> <<IsValidPathInfo>> \o DiskChanges.UnregisterSyncFolderChanges \o <<ToC>>,
    OH_GetSyncFolderChanges |->
        <<Check(InvalidArg), IsValidPathInfo>> \o DiskChanges.GetSyncFolderChanges
        \o <<ToC, ReturnIfFailed(<<>>), Allocated>>,
    OH_SetFileSyncStates |->
        <<Check(InvalidArg), IsValidPathInfo, Check(InvalidArg)>> \o DiskFolders.SetFileSyncStates
        \o <<ToC, ReturnIfFailed(<<>>), Allocated>>]
OH_States == [
    OH_GetFileSyncStates |->
        <<Check(InvalidArg), IsValidPathInfo, IsValidPathInfo>> \o DiskFolders.GetFileSyncStates
        \o <<ToC, ReturnIfFailed(<<>>), Allocated>>,
    OH_CreatePlaceholder |->
        <<IsValidPathInfo, ConvertPlaceholderCustomInfo>> \o DiskFolders.CreatePlaceholderFile \o <<ToC>>,
    OH_IsPlaceholderFile |->
        <<Check(InvalidArg), IsValidPathInfo, IsValidPathInfo>> \o DiskFolders.IsPlaceholderFile \o <<ToC>>]
OH_Folders == [
    OH_GetPlaceholderState |-> <<Check(InvalidArg), IsValidPathInfo>> \o DiskProgress.GetPlaceholderState \o <<ToC>>,
    OH_RegisterSyncFolder |-> <<Check(InvalidArg), IsValidPathInfo, IsValidPathInfo, Elsewhere, ToC>>,
    OH_UnregisterSyncFolder |-> <<IsValidPathInfo, Elsewhere, ToC>>,
    OH_ActiveSyncFolder |-> <<IsValidPathInfo, Elsewhere, ToC>>,
    OH_DeactiveSyncFolder |-> <<IsValidPathInfo, Elsewhere, ToC>>]
OH_GetSyncFolders == <<Check(InvalidArg), Elsewhere, ToC, ReturnIfFailed(<<>>), Allocated>>
OH_Placeholders == [
    OH_UpdateCustomAlias |-> <<IsValidPathInfo, Check(InvalidArg), Elsewhere, ToC>>,
    OH_ConvertPlaceholderToFile |->
        <<IsValidPathInfo, IsValidPathInfo>> \o DiskHydration.ConvertPlaceholderToFile \o <<ToC>>,
    OH_MarkFileAsPlaceholder |-> <<IsValidPathInfo>> \o DiskHydration.MarkFileAsPlaceholder \o <<ToC>>,
    OH_UnmarkPlaceholderFile |-> <<IsValidPathInfo>> \o DiskHydration.UnmarkPlaceholderFile \o <<ToC>>,
    \* One function for the start and for the cancel of a hydration.
    OH_HydratePlaceholder |-> <<IsValidPathInfo>> \o DiskHydration.StartHydration \o <<ToC>>]
BuildCallbackExecuteRequest ==
    LET BuildExecuteFetchData == Check(InvalidArg)
    IN  <<Check(InvalidArg), BuildExecuteFetchData, IsValidPathInfo>>
OH_Data == [
    OH_Execute |-> BuildCallbackExecuteRequest \o DiskHydration.Execute \o <<ToC>>,
    OH_DehydrateFile |-> <<IsValidPathInfo>> \o DiskPlaceholders.DehydrateFile \o <<ToC>>,
    OH_UpdatePlaceholder |->
        <<IsValidPathInfo, IsValidPathInfo, ConvertPlaceholderCustomInfo>>
        \o DiskPlaceholders.UpdatePlaceholder \o <<ToC>>,
    OH_RegisterSyncFolderEx |->
        <<Check(InvalidArg), Check(InvalidArg), IsValidPathInfo, IsValidPathInfo, Elsewhere, ToC>>]
FillSyncFolderEx == Allocated
OH_Tables == [
    OH_GetSyncFoldersEx |-> <<Check(InvalidArg), Elsewhere, ToC, ReturnIfFailed(<<>>), FillSyncFolderEx>>,
    \* The length is told even when the caller's buffer is too short.
    OH_GetPlaceholderCustomInfo |->
        <<IsValidPathInfo, Check(InvalidArg)>> \o DiskPlaceholders.GetPlaceholderCustomInfo
        \o <<ToC, ReturnIfFailed(<<>>), Check(InvalidArg), Check(InvalidArg)>>,
    OH_RegisterCallbackTable |-> <<IsValidPathInfo>> \o DiskChanges.RegisterCallbackTable \o <<ToC>>,
    OH_UnregisterCallbackTable |-> <<IsValidPathInfo>> \o DiskChanges.UnregisterCallbackTable \o <<ToC>>]

\* The C interface, and the functions that the services of the system use.
DiskApi ==
    OH_Changes @@ OH_States @@ OH_Folders @@ OH_Placeholders @@ OH_Data @@ OH_Tables
    @@ [OH_GetSyncFolders |-> OH_GetSyncFolders,
        RegisterSyncFolder |-> DiskFolders.RegisterSyncFolder,
        UnregisterSyncFolder |-> DiskFolders.UnregisterSyncFolder,
        UnregisterForSa |-> DiskHydration.UnregisterForSa, CancelHydration |-> DiskHydration.CancelHydration,
        StartHydrationByPath |-> DiskPlaceholders.StartHydrationByPath,
        DehydrateFileByPath |-> DiskPlaceholders.DehydrateFileByPath,
        RegisterProgressCallback |-> DiskProgress.RegisterProgressCallback,
        UnregisterProgressCallback |-> DiskProgress.UnregisterProgressCallback]
=============================================================================
