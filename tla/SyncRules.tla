------------------------------- MODULE SyncRules -------------------------------
(***************************************************************************)
(* What the cloud sync service knows when it decides whether to            *)
(* synchronise: the user's settings, cached and watched                    *)
(* (SettingsDataManager); the default network, heard of by callbacks and   *)
(* fetched at the first question (NetworkStatus); the permission to use    *)
(* the cellular network (NetworkSetManager); the temperature, the battery  *)
(* and the signal strength.  The four parts share no state but the         *)
(* network's; Kinds says which of them change.                             *)
(***************************************************************************)
EXTENDS Integers, Sequences, FiniteSets

CONSTANTS
    Kinds,      \* subset of {"settings", "network", "cellular", "load"}
    Users,
    Values,     \* values of a setting
    Readers,    \* threads that query a setting
    MaxOps      \* changes of the environment

VARIABLES
    setting,    \* place -> value, a place being a user or "common"
    userId,     \* currentUserId_
    support,    \* supportUserSettingsData_
    preInit,    \* "no", "late" after the time-out, "done"
    settingsMap,\* settingsDataMap_ of one key
    observed,   \* the place that an observer is registered for
    onChange,   \* notifications that are not handled yet
    query,      \* thread -> [at, value]: a query under way
    user,       \* OnUserSwitched: "idle", "clear", "register" or "query"
    overlap,    \* queries have overlapped a query or a user switch
    net,        \* the default network
    netStatus,  \* netStatus_
    netEvents,  \* callbacks under way
    registered, \* a callback observer is registered
    heard,      \* the status of the last callback
    fetch,      \* initNetStatusOnceFlag_ and the fetch: [at, value]
    cellSwitch, \* the user's permission for cellular uploads
    cellMap,    \* cellularNetMap_ of the gallery
    cellNotice, \* its change is not handled yet
    check,      \* GetCellularConnect: [at, pre]
    stopper,    \* NetWorkChangeStopUploadTask is submitted
    uploading,  \* an upload: "no", "checked", "overtaken" by a stop after its check, "yes", "late"
    level,      \* levelStatus_
    stopped,    \* TEMPERATURE_SYSPARAM_SYNC
    asking,     \* IsSystemLoadAllowed is about to set the parameter
    cooling,    \* a closure of OnThermalLevelResult is submitted
    missed,     \* a closure has run while a thread was asking
    power,      \* [charging, capacity, level]
    signal,     \* [strength, allowed]: wifiSignalStrength_, wifiAllowSync_
    ops

settingsVars == <<setting, userId, support, preInit, settingsMap, observed, onChange, query, user, overlap>>
netVars == <<net, netStatus, netEvents, registered, heard, fetch>>
cellVars == <<cellSwitch, cellMap, cellNotice, check, stopper, uploading>>
loadVars == <<level, stopped, asking, cooling, missed, power, signal>>
vars == <<settingsVars, netVars, cellVars, loadVars, ops>>

None == "none"
Idle == [at |-> "idle", value |-> None]
Threads == Readers \cup {"observer", "switcher"}
Networks == {"lost", "wifi", "ethernet", "cellular"}
HOT == 2
OVERHEATED == 3
STOP_CAPACITY_LIMIT == 10
PAUSE_CAPACITY_LIMIT == 15
stopSignal == 1
startSignal == 3

TypeOK ==
    /\ settingsMap \in Values \cup {None} /\ observed \in Users \cup {"common", None}
    /\ \A t \in Threads : query[t].at \in {"idle", "read"}
    /\ netStatus \in Networks \cup {"notinit"} /\ fetch.at \in {"no", "running", "done"}
    /\ cellMap \in {"yes", "no", None} /\ check.at \in {"idle", "query", "look"}
    /\ uploading \in {"no", "checked", "overtaken", "yes", "late"}
    /\ level \in 0..OVERHEATED /\ power.level \in {"normal", "low", "toolow"}

Init ==
    /\ setting \in [Users \cup {"common"} -> {CHOOSE v \in Values : TRUE}]
    /\ userId \in Users /\ support = FALSE /\ preInit = "no"
    /\ settingsMap = None /\ observed = None /\ onChange = 0
    /\ query = [t \in Threads |-> Idle] /\ user = "start" /\ overlap = FALSE
    /\ net \in (IF {"network", "cellular"} \cap Kinds = {} THEN {"lost"} ELSE {"lost", "wifi"})
    /\ netStatus = "notinit" /\ netEvents = <<>>
    /\ registered = FALSE /\ heard = None /\ fetch = [at |-> "no", value |-> None]
    /\ cellSwitch = TRUE /\ cellMap = None /\ cellNotice = FALSE
    /\ check = [at |-> "idle", pre |-> FALSE] /\ stopper = FALSE /\ uploading = "no"
    /\ level = 0 /\ stopped = FALSE /\ asking = FALSE /\ cooling = FALSE /\ missed = FALSE
    /\ power = [charging |-> FALSE, capacity |-> 50, level |-> "normal"]
    /\ signal = [strength |-> 5, allowed |-> TRUE] /\ ops = 0

Changes == ops < MaxOps /\ ops' = ops + 1

-----------------------------------------------------------------------------
(* Settings                                                                *)

GetSettingsDataUri == IF support THEN userId ELSE "common"

\* The foreground user is asked for, and whether settings are kept by user;
\* the caller waits four seconds, the thread may finish later.
PreInit(inTime) ==
    /\ preInit = "no" /\ preInit' = IF inTime THEN "done" ELSE "late"
    /\ support' = inTime
    /\ UNCHANGED <<setting, userId, settingsMap, observed, onChange, query, user, overlap, netVars, cellVars, loadVars, ops>>

PreInitEnds ==
    /\ preInit = "late" /\ preInit' = "done" /\ support' = TRUE
    /\ UNCHANGED <<setting, userId, settingsMap, observed, onChange, query, user, overlap, netVars, cellVars, loadVars, ops>>

SettingChanges(place, v) ==
    /\ Changes /\ v # setting[place]
    /\ setting' = [setting EXCEPT ![place] = v]
    /\ onChange' = IF observed = place THEN onChange + 1 ELSE onChange
    /\ UNCHANGED <<userId, support, preInit, settingsMap, observed, query, user, overlap, netVars, cellVars, loadVars>>

\* QueryParamInSettingsData: a thread has read the value, or failed to.
QueryRead(t, ok) ==
    /\ preInit # "no" /\ query[t] = Idle
    /\ t = "observer" => onChange > 0
    /\ t = "switcher" => user = "query"
    /\ query' = [query EXCEPT ![t] = [at |-> "read", value |-> IF ok THEN setting[GetSettingsDataUri] ELSE None]]
    /\ onChange' = IF t = "observer" THEN onChange - 1 ELSE onChange
    /\ overlap' = (overlap \/ \E s \in Threads : query[s] # Idle \/ user = "clear")
    /\ UNCHANGED <<setting, userId, support, preInit, settingsMap, observed, user, netVars, cellVars, loadVars, ops>>

\* QuerySwitchStatus and its likes: the cache takes the value, or loses it.
QueryStore(t) ==
    /\ query[t].at = "read"
    /\ settingsMap' = query[t].value /\ query' = [query EXCEPT ![t] = Idle]
    /\ user' = IF t = "switcher" THEN "idle" ELSE user
    /\ UNCHANGED <<setting, userId, support, preInit, observed, onChange, overlap, netVars, cellVars, loadVars, ops>>

\* RegisterObserver, in InitSettingsDataManager and in ReregisterAllObservers:
\* a failure is passed over.
RegisterObserver(ok) ==
    /\ preInit # "no" /\ user \in {"start", "register"}
    /\ observed' = (IF ok THEN GetSettingsDataUri ELSE None) /\ user' = "query"
    /\ UNCHANGED <<setting, userId, support, preInit, settingsMap, onChange, query, overlap, netVars, cellVars, loadVars, ops>>

\* OnUserSwitched: observers go, the user changes and the cache is cleared,
\* observers come, all keys are queried.
OnUserSwitched(u) ==
    /\ user = "idle" /\ support /\ u # userId /\ Changes
    /\ observed' = None /\ user' = "clear" /\ userId' = u
    /\ overlap' = (overlap \/ \E t \in Threads : query[t] # Idle)
    /\ UNCHANGED <<setting, support, preInit, settingsMap, onChange, query, netVars, cellVars, loadVars>>

ClearSettings ==
    /\ user = "clear" /\ settingsMap' = None /\ user' = "register"
    /\ overlap' = (overlap \/ \E t \in Threads : query[t] # Idle)
    /\ UNCHANGED <<setting, userId, support, preInit, observed, onChange, query, netVars, cellVars, loadVars, ops>>

Settings ==
    \/ \E b \in BOOLEAN : PreInit(b) \/ RegisterObserver(b)
    \/ PreInitEnds \/ ClearSettings
    \/ \E place \in Users \cup {"common"}, v \in Values : SettingChanges(place, v)
    \/ \E t \in Threads : QueryStore(t) \/ \E ok \in BOOLEAN : QueryRead(t, ok)
    \/ \E u \in Users : OnUserSwitched(u)

-----------------------------------------------------------------------------
(* The default network                                                     *)

NetChanges(n) ==
    /\ Changes /\ n # net /\ net' = n
    /\ netEvents' = IF registered THEN Append(netEvents, n) ELSE netEvents
    /\ UNCHANGED <<settingsVars, netStatus, registered, heard, fetch, cellVars, loadVars>>

\* InitNetwork: two attempts, after which the service does without.
InitNetwork(ok) ==
    /\ ~registered /\ registered' = ok
    /\ UNCHANGED <<settingsVars, net, netStatus, netEvents, heard, fetch, cellVars, loadVars, ops>>

\* NetCapabilitiesChange and NetLost: the status is set; an upload that the
\* user does not allow on the cellular network is stopped by a closure.
NetCapabilitiesChange ==
    /\ netEvents # <<>> /\ netEvents' = Tail(netEvents)
    /\ netStatus' = Head(netEvents) /\ heard' = Head(netEvents)
    /\ stopper' = (stopper \/ (Head(netEvents) = "cellular" /\ netStatus # "cellular"))
    /\ UNCHANGED <<settingsVars, net, registered, fetch, cellSwitch, cellMap, cellNotice, check, uploading, loadVars, ops>>

\* GetNetConnStatus: the first call fetches the default network unless a
\* callback was faster; calls wait for it.
DoInitialFetch(ok) ==
    /\ fetch.at = "no"
    /\ fetch' = IF netStatus # "notinit" THEN [at |-> "done", value |-> None]
                ELSE [at |-> "running", value |-> IF ok THEN net ELSE "notinit"]
    /\ UNCHANGED <<settingsVars, net, netStatus, netEvents, registered, heard, cellVars, loadVars, ops>>

\* Mutant: the fetched status is stored whatever happened meanwhile.
FetchOverwrites(inTime) ==
    /\ fetch.at = "running" /\ fetch' = [at |-> "done", value |-> None]
    /\ netStatus' = IF inTime /\ fetch.value # "notinit" THEN fetch.value ELSE netStatus
    /\ UNCHANGED <<settingsVars, net, netEvents, registered, heard, cellVars, loadVars, ops>>

FetchDefaultNetWithTimeout(inTime) ==
    /\ fetch.at = "running" /\ fetch' = [at |-> "done", value |-> None]
    /\ netStatus' = IF inTime /\ netStatus = "notinit" /\ fetch.value # "notinit" THEN fetch.value ELSE netStatus
    /\ UNCHANGED <<settingsVars, net, netEvents, registered, heard, cellVars, loadVars, ops>>

Network ==
    \/ \E n \in Networks : NetChanges(n)
    \/ \E b \in BOOLEAN : InitNetwork(b) \/ DoInitialFetch(b) \/ FetchDefaultNetWithTimeout(b)
    \/ NetCapabilitiesChange

-----------------------------------------------------------------------------
(* Uploads over the cellular network                                       *)

SwitchChanges ==
    /\ Changes /\ cellSwitch' = ~cellSwitch /\ cellNotice' = TRUE
    /\ UNCHANGED <<settingsVars, netVars, cellMap, check, stopper, uploading, loadVars>>

\* GetCellularConnect, for a notification or for the first question: the
\* cached value is remembered, ...
GetCellularConnect ==
    /\ check.at = "idle" /\ fetch.at = "done" /\ (cellNotice \/ cellMap = None)
    /\ check' = [at |-> "query", pre |-> cellMap = "yes"] /\ cellNotice' = FALSE
    /\ UNCHANGED <<settingsVars, netVars, cellSwitch, cellMap, stopper, uploading, loadVars, ops>>

\* ... the new one stored: the provider's answer, or else the configuration's.
QueryCellularConnect(ok, config) ==
    /\ check.at = "query" /\ check' = [check EXCEPT !.at = "look"]
    /\ cellMap' = IF (IF ok THEN cellSwitch ELSE config) THEN "yes" ELSE "no"
    /\ UNCHANGED <<settingsVars, netVars, cellSwitch, cellNotice, stopper, uploading, loadVars, ops>>

\* The engine stops the upload that is under way; one that has passed its check
\* is not known to it yet.
Stopped == IF uploading \in {"checked", "overtaken"} THEN "overtaken" ELSE "no"

\* ... and the network looked at: without wifi, a permission that is gone
\* stops the uploads.
StopUploadTask ==
    uploading' = IF netStatus # "wifi" /\ check.pre /\ cellMap = "no" THEN Stopped ELSE uploading

CellularConnectEnds ==
    /\ check.at = "look" /\ check' = [check EXCEPT !.at = "idle", !.pre = FALSE]
    /\ StopUploadTask
    /\ UNCHANGED <<settingsVars, netVars, cellSwitch, cellMap, cellNotice, stopper, loadVars, ops>>

NetWorkChangeStopUploadTask ==
    /\ stopper /\ stopper' = FALSE /\ uploading' = IF cellMap = "no" THEN Stopped ELSE uploading
    /\ UNCHANGED <<settingsVars, netVars, cellSwitch, cellMap, cellNotice, check, loadVars, ops>>

\* CheckMobileNetwork of the gallery: the permission, or else wifi or ethernet.
CheckMobileNetwork ==
    /\ uploading = "no" /\ fetch.at = "done" /\ cellMap # None
    /\ cellMap = "yes" \/ netStatus \in {"wifi", "ethernet"}
    /\ uploading' = "checked"
    /\ UNCHANGED <<settingsVars, netVars, cellSwitch, cellMap, cellNotice, check, stopper, loadVars, ops>>

\* The engine begins what was checked.
UploadBegins ==
    /\ uploading \in {"checked", "overtaken"}
    /\ uploading' = IF uploading = "checked" THEN "yes" ELSE "late"
    /\ UNCHANGED <<settingsVars, netVars, cellSwitch, cellMap, cellNotice, check, stopper, loadVars, ops>>

Cellular ==
    \/ SwitchChanges \/ GetCellularConnect \/ CellularConnectEnds
    \/ NetWorkChangeStopUploadTask \/ CheckMobileNetwork \/ UploadBegins
    \/ \E ok, config \in BOOLEAN : QueryCellularConnect(ok, config)

-----------------------------------------------------------------------------
(* Temperature, battery, signal strength                                   *)

\* The level is stored; below HOT a closure resumes what was stopped.
OnThermalLevelResult(l) ==
    /\ Changes /\ level' = l /\ cooling' = (cooling \/ l < HOT)
    /\ UNCHANGED <<settingsVars, netVars, cellVars, stopped, asking, missed, power, signal>>

ResumeStopped ==
    /\ cooling /\ cooling' = FALSE /\ stopped' = FALSE /\ missed' = (missed \/ asking)
    /\ UNCHANGED <<settingsVars, netVars, cellVars, level, asking, power, signal, ops>>

\* A sync that finds the device too warm is stopped and leaves word.
IsSystemLoadAllowed ==
    /\ ~asking /\ level > HOT /\ asking' = TRUE
    /\ UNCHANGED <<settingsVars, netVars, cellVars, level, stopped, cooling, missed, power, signal, ops>>

SetStopped ==
    /\ asking /\ asking' = FALSE /\ stopped' = TRUE
    /\ missed' = (missed \/ (level < HOT /\ ~cooling))
    /\ UNCHANGED <<settingsVars, netVars, cellVars, level, cooling, power, signal, ops>>

BatteryEvent(charging, capacity) ==
    /\ Changes /\ power' = [power EXCEPT !.charging = charging, !.capacity = capacity]
    /\ UNCHANGED <<settingsVars, netVars, cellVars, level, stopped, asking, cooling, missed, signal>>

BatteryLevel(capacity, force) ==
    CASE capacity < STOP_CAPACITY_LIMIT -> "toolow"
      [] capacity \in STOP_CAPACITY_LIMIT..(PAUSE_CAPACITY_LIMIT - 1) -> IF force THEN power.level ELSE "low"
      [] OTHER -> "normal"

BatteryAllowsSync(force) ==
    /\ ~power.charging /\ power' = [power EXCEPT !.level = BatteryLevel(power.capacity, force)]
    /\ UNCHANGED <<settingsVars, netVars, cellVars, level, stopped, asking, cooling, missed, signal, ops>>

SignalEvent(s) ==
    /\ Changes /\ signal' = [signal EXCEPT !.strength = s]
    /\ UNCHANGED <<settingsVars, netVars, cellVars, level, stopped, asking, cooling, missed, power>>

\* A weak network stops syncs until the signal is strong: two thresholds.
IsAllowSync ==
    /\ ~power.charging
    /\ signal' = [signal EXCEPT !.allowed = (@ /\ signal.strength > stopSignal) \/ signal.strength >= startSignal]
    /\ UNCHANGED <<settingsVars, netVars, cellVars, level, stopped, asking, cooling, missed, power, ops>>

Load ==
    \/ \E l \in 0..OVERHEATED : OnThermalLevelResult(l)
    \/ ResumeStopped \/ IsSystemLoadAllowed \/ SetStopped \/ IsAllowSync
    \/ \E b \in BOOLEAN : BatteryAllowsSync(b) \/ \E c \in {9, 10, 15} : BatteryEvent(b, c)
    \/ \E s \in {1, 2, 3} : SignalEvent(s)

Next ==
    \/ "settings" \in Kinds /\ Settings
    \/ {"network", "cellular"} \cap Kinds # {} /\ Network
    \/ "cellular" \in Kinds /\ Cellular
    \/ "load" \in Kinds /\ Load

Spec == Init /\ [][Next]_vars

-----------------------------------------------------------------------------
(* What is checked                                                         *)

\* A cached setting is the one of the current user once every notification
\* and query is done, provided the observer could be registered where the
\* setting is kept and no two queries overlapped: registering before the
\* first query leaves no gap in which a change goes unnoticed.
SettingsAreCurrent ==
    /\ ~overlap /\ settingsMap # None /\ onChange = 0 /\ user = "idle"
    /\ observed = GetSettingsDataUri /\ \A t \in Threads : query[t] = Idle
    => settingsMap = setting[observed]

\* The network status is what the last callback reported: the fetch of the
\* first question never replaces it by an older answer.
CallbacksWin == heard # None => netStatus = heard

\* No upload goes on over the cellular network when the cached permission is
\* gone, but for the time until a step under way stops it, whichever of the
\* network and the permission changes first.  Excepted is an upload that passed
\* its check before the stop and began after it.
UploadsRespectThePermission ==
    uploading = "yes" /\ netStatus = "cellular" /\ cellMap = "no" => stopper \/ (check.at = "look" /\ check.pre)

\* A sync that the temperature stopped is resumed when the device has cooled
\* down, but where the cooling met the stop half way.
StoppedSyncsResume == stopped /\ level < HOT => cooling \/ missed
=============================================================================
