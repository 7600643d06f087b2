------------------------------ MODULE CloudParcels ------------------------------
(***************************************************************************)
(* What the processes of the system write into a parcel and read out of    *)
(* it.  A writer or a reader is the sequence of its steps, in the order of *)
(* the code; IpcCalls runs them.  This module has the steps and the        *)
(* classes that are sent as a whole; DaemonIpc has the calls.              *)
(***************************************************************************)
EXTENDS Naturals, Sequences, TLC

CONSTANTS
    MAX_SIZE,  \* MAX_MAP_SIZE, VECTOR_MAX_SIZE, MAX_CONNECTED_SIZE
    MAX_KEY    \* MAX_CALLBACK_REQUEST_KEY_SIZE and MAX_EXECUTE_DATA_SIZE

-----------------------------------------------------------------------------
(* Fields and steps                                                        *)

Str(n) == <<"str", n>>
Bool(n) == <<"bool", n>>
Byte(n) == <<"u8", n>>
Int(n) == <<"i32", n>>
Uint(n) == <<"u32", n>>
Long(n) == <<"i64", n>>
Ulong(n) == <<"u64", n>>
Bytes(n) == <<"vec8", n>>
Strings(n) == <<"strvec", n>>
Object(n) == <<"object", n>>
Fd(n) == <<"fd", n>>
Token(n) == <<"token", n>>
Parcelable(c) == <<"parcelable", c>>

\* A write or a read whose failure ends the function, and one whose failure
\* is not looked at.
Put(f) == [k |-> "put", f |-> f]
TryPut(f) == [k |-> "tryput", f |-> f]
Get(f) == [k |-> "get", f |-> f]
TryGet(f) == [k |-> "tryget", f |-> f]
Puts(fs) == [i \in DOMAIN fs |-> Put(fs[i])]
TryPuts(fs) == [i \in DOMAIN fs |-> TryPut(fs[i])]
Gets(fs) == [i \in DOMAIN fs |-> Get(fs[i])]

\* A pointer that is only written when it is not null; a field read only if
\* bytes are left.
PutIfAny(f) == [k |-> "putifany", f |-> f]
GetIfAny(f) == [k |-> "getifany", f |-> f]

\* A size and that many groups of fields.
PutMany(f, group) == [k |-> "putmany", f |-> f, group |-> group]
GetMany(f, group, min, max) == [k |-> "getmany", f |-> f, group |-> group, min |-> min, max |-> max]

\* A condition that ends the function when it does not hold; the bounds of a
\* list the writer looks at.
Check(c) == [k |-> "check", c |-> c]
Bounds(min, max) == [k |-> "bounds", min |-> min, max |-> max]

\* The service's own function, with or without a result; the early returns
\* that look at it.
Call == [k |-> "call"]
Notify == [k |-> "notify"]
FailUnlessOk == [k |-> "failunlessok"]
EndUnlessOk(s) == [k |-> "endunlessok", s |-> s]
Return(s) == [k |-> "return", s |-> s]

\* SendRequest with its answer, without an answer (TF_ASYNC), and the test
\* of its status.
Send == [k |-> "send"]
SendAsync == [k |-> "async"]
Status == [k |-> "status"]

-----------------------------------------------------------------------------
(* Classes of cloud_sync_common.cpp                                        *)

NoLimit == 1000
Unmarshalled == <<Notify, Return("ok")>>

\* The writers of the classes come first in the file, then their readers.
ProgressWrites ==
    LET MarshallingBatch ==
            Puts(<<Long("batchDownloadSize"), Long("batchTotalSize"), Long("batchSuccNum"), Long("batchFailNum"),
                   Long("batchTotalNum"), Int("batchState")>>)
    IN  [SwitchDataObj |-> <<PutMany(Uint("switchData"), <<Str("key"), Bool("value")>>)>>,
         DownloadProgressObj |->
             Puts(<<Str("path"), Int("state"), Long("downloadedSize"), Long("totalSize"), Int("downloadErrorType"),
                    Long("downloadId")>>) \o MarshallingBatch,
         DowngradeProgress |->
             Puts(<<Int("state"), Int("stopReason"), Long("downloadedSize"), Long("totalSize"),
                    Int("successfulCount"), Int("failedCount"), Int("totalCount")>>),
         DowngradeTfProgress |->
             Puts(<<Int("state"), Int("stopReason"), Long("transferredSize"), Long("totalSize"),
                    Int("successfulCount"), Int("failedCount"), Int("totalCount")>>)]
InfoWrites == [
    CloudFileInfo |->
        Puts(<<Int("cloudfileCount"), Long("cloudFileTotalSize"), Int("localFileCount"), Long("localFileTotalSize"),
               Int("bothFileCount"), Long("bothFileTotalSize")>>),
    HistoryVersion |->
        Puts(<<Long("editedTime"), Ulong("fileSize"), Ulong("versionId"), Str("originalFileName"), Str("sha256"),
               Bool("resolved")>>),
    CleanOptions |-> <<PutMany(Uint("appActionsData"), <<Str("key"), Int("value")>>)>>]
OptimizeSpaceOptions ==
    <<Puts(<<Long("totalSize"), Int("agingDays")>>), Gets(<<Long("totalSize"), Int("agingDays")>>)>>
ListReads ==
    LET ReadBatchFromParcel ==
            Gets(<<Long("batchDownloadSize"), Long("batchTotalSize"), Long("batchSuccNum"), Long("batchFailNum"),
                   Long("batchTotalNum"), Int("batchState")>>)
    IN  [SwitchDataObj |-> <<GetMany(Uint("switchData"), <<Str("key"), Bool("value")>>, 0, MAX_SIZE)>>,
         CleanOptions |-> <<GetMany(Uint("appActionsData"), <<Str("key"), Int("value")>>, 0, MAX_SIZE)>>,
         DownloadProgressObj |->
             Gets(<<Str("path"), Int("state"), Long("downloadedSize"), Long("totalSize"), Int("downloadErrorType"),
                    Long("downloadId")>>) \o ReadBatchFromParcel]
InfoReads == [
    DowngradeProgress |->
        Gets(<<Int("state"), Int("stopReason"), Long("downloadedSize"), Long("totalSize"), Int("successfulCount"),
               Int("failedCount"), Int("totalCount")>>),
    DowngradeTfProgress |->
        Gets(<<Int("state"), Int("stopReason"), Long("transferredSize"), Long("totalSize"), Int("successfulCount"),
               Int("failedCount"), Int("totalCount")>>),
    CloudFileInfo |->
        Gets(<<Int("cloudfileCount"), Long("cloudFileTotalSize"), Int("localFileCount"), Long("localFileTotalSize"),
               Int("bothFileCount"), Long("bothFileTotalSize")>>),
    HistoryVersion |->
        Gets(<<Long("editedTime"), Ulong("fileSize"), Ulong("versionId"), Str("originalFileName"), Str("sha256"),
               Bool("resolved")>>)]

\* From here on what a class writes and what it reads stand side by side.
DentryFileInfoObj ==
    <<TryPuts(<<Str("cloudId"), Long("size"), Long("modifiedTime"), Str("path"), Str("fileName"), Str("fileType")>>),
      Gets(<<Str("cloudId"), Long("size"), Long("modifiedTime"), Str("path"), Str("fileName"), Str("fileType")>>)>>
AssetInfoObj ==
    <<TryPuts(<<Str("uri"), Str("recordType"), Str("recordId"), Str("fieldKey"), Str("assetName")>>),
      Gets(<<Str("uri"), Str("recordType"), Str("recordId"), Str("fieldKey"), Str("assetName")>>)>>
CleanFileInfoObj ==
    <<Puts(<<Long("size"), Long("modifiedTime"), Int("fileSourceType"), Str("cloudId"), Str("path"),
             Str("fileName"), Str("storagePath"), Strings("attachment")>>),
      Gets(<<Long("size"), Long("modifiedTime"), Int("fileSourceType"), Str("cloudId"), Str("path"),
             Str("fileName"), Str("storagePath"), Strings("attachment")>>)>>
LocalFilePresentStatus ==
    <<Puts(<<Str("bundleName"), Bool("isLocalFilePresents")>>),
      Gets(<<Str("bundleName"), Bool("isLocalFilePresents")>>)>>
XattrResult ==
    <<Puts(<<Bool("isSuccess"), Bytes("xattrValue")>>), Gets(<<Bool("isSuccess"), Bytes("xattrValue")>>)>>
UploadProgressObj ==
    <<Puts(<<Int("state"), Long("processed"), Long("size"), Str("uri"), Int("error")>>),
      Gets(<<Int("state"), Long("processed"), Long("size"), Str("uri"), Int("error")>>)>>

-----------------------------------------------------------------------------
(* Classes of cloud_disk_common.cpp                                        *)

HydrateProgress ==
    <<<<Check("state")>>
      \o Puts(<<Str("filePath"), Int("state"), Ulong("processedSize"), Ulong("totalSize"), Ulong("accessorId")>>),
      Gets(<<Str("filePath"), Int("state"), Ulong("processedSize"), Ulong("totalSize")>>)
      \o <<GetIfAny(Ulong("accessorId"))>>>>

\* The size of the request key stands for the length of both vectors.
ReadExecuteVector(n, min) == GetMany(Int(n), <<Byte(n)>>, min, MAX_KEY)
CallbackExecuteRequest ==
    <<<<Bounds(1, MAX_KEY), PutMany(Int("reqKey"), <<Byte("reqKey")>>)>>
      \o Puts(<<Str("syncFolder"), Str("filePath"), Int("callbackType"), Ulong("offset"), Ulong("size"),
                Ulong("totalSize")>>)
      \o <<PutMany(Int("data"), <<Byte("data")>>), Put(Bool("isComplete"))>>,
      <<ReadExecuteVector("reqKey", 1)>>
      \o Gets(<<Str("syncFolder"), Str("filePath"), Int("callbackType"), Ulong("offset"), Ulong("size"),
                Ulong("totalSize")>>)
      \o <<ReadExecuteVector("data", 0), Get(Bool("isComplete"))>>>>

FileSyncState == <<Puts(<<Str("path"), Int("state")>>), Gets(<<Str("path"), Int("state")>>)>>
ChangeDataFields ==
    <<Ulong("updateSequenceNumber"), Str("fileId"), Str("parentFileId"), Str("relativePath"), Byte("operationType"),
      Ulong("size"), Ulong("mtime"), Ulong("timeStamp")>>
ChangeData ==
    <<Puts(ChangeDataFields),
      Gets(<<Ulong("updateSequenceNumber"), Str("fileId"), Str("parentFileId"), Str("relativePath"),
             Byte("operationType"), Ulong("size"), Ulong("mtime"), Ulong("timeStamp")>>)>>
DiskResults == [
    ChangesResult |->
        <<Puts(<<Ulong("nextUsn"), Int("isEof")>>) \o <<PutMany(Int("changesData"), ChangeDataFields)>>,
          Gets(<<Ulong("nextUsn"), Int("isEof")>>) \o <<GetMany(Int("changesData"), ChangeDataFields, 0, NoLimit)>>>>,
    FailedList |-> <<Puts(<<Str("path"), Int("error")>>), Gets(<<Str("path"), Int("error")>>)>>]
DiskInfo == [
    ResultList |->
        <<Puts(<<Int("isSuccess"), Int("state"), Str("path"), Int("error")>>),
          Gets(<<Int("isSuccess"), Int("state"), Str("path"), Int("error")>>)>>,
    PlaceholderInfo |->
        <<Puts(<<Ulong("logicalSize"), Ulong("atimeMs"), Ulong("mtimeMs")>>),
          Gets(<<Ulong("logicalSize"), Ulong("atimeMs"), Ulong("mtimeMs")>>)>>,
    PlaceholderCustomInfo |-> <<Puts(<<Bytes("data")>>), Gets(<<Bytes("data")>>)>>]

\* AssetObj does not look at the first four strings.
AssetObj ==
    LET Names == <<Str("sessionId"), Str("dstNetworkId"), Str("srcBundleName"), Str("dstBundleName")>>
    IN  <<TryPuts(Names) \o Puts(<<Strings("uris"), Ulong("peerDisplayId")>>),
          [i \in DOMAIN Names |-> TryGet(Names[i])] \o Gets(<<Strings("uris"), Ulong("peerDisplayId")>>)>>

-----------------------------------------------------------------------------
(* The request of a registered application's callback and its answer, by   *)
(* the type of the callback                                                *)

CallbackHead == <<Str("syncFolder"), Int("callbackType")>>
WriteCallbackParcel(type) ==
    <<Check("pointers")>> \o Puts(CallbackHead) \o Puts(<<Bytes("reqKey"), Str("filePath")>>)
    \o (IF type = "FETCH_DATA" THEN Puts(<<Int("priority")>>) ELSE <<>>)
ReadCallbackRequestHead ==
    Gets(CallbackHead) \o <<Check("callbackType")>> \o Gets(<<Bytes("reqKey"), Str("filePath")>>)
ReadCallbackParcel(type) ==
    ReadCallbackRequestHead
    \o (IF type = "FETCH_DATA" THEN Gets(<<Int("priority")>>) \o <<Check("priority")>> ELSE <<>>)
WriteCallbackReply(type) == IF type = "DEHYDRATE" THEN Puts(<<Bool("allow")>>) ELSE <<>>
ReadCallbackReply(type) == IF type = "DEHYDRATE" THEN Gets(<<Bool("allow")>>) ELSE <<>>

-----------------------------------------------------------------------------

\* Every class: what Marshalling writes and what Unmarshalling reads.
Classes ==
    [c \in DOMAIN (ProgressWrites @@ InfoWrites) |->
        <<(ProgressWrites @@ InfoWrites)[c], (ListReads @@ InfoReads)[c]>>]
    @@ DiskResults @@ DiskInfo
    @@ [OptimizeSpaceOptions |-> OptimizeSpaceOptions, DentryFileInfoObj |-> DentryFileInfoObj,
        AssetInfoObj |-> AssetInfoObj, CleanFileInfoObj |-> CleanFileInfoObj,
        LocalFilePresentStatus |-> LocalFilePresentStatus, XattrResult |-> XattrResult,
        UploadProgressObj |-> UploadProgressObj, HydrateProgress |-> HydrateProgress,
        CallbackExecuteRequest |-> CallbackExecuteRequest, FileSyncState |-> FileSyncState,
        ChangeData |-> ChangeData, AssetObj |-> AssetObj]
=============================================================================
