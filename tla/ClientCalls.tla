------------------------------- MODULE ClientCalls -------------------------------
(***************************************************************************)
(* A client library of the service, used by several threads of an          *)
(* application while the service is loaded on demand, dies and comes back. *)
(* A thread runs the program of the function it called; the service        *)
(* manager tells of deaths and of starts when it gets round to it.         *)
(***************************************************************************)
EXTENDS DiskPrograms, KitPrograms, FiniteSets

CONSTANTS
    Client,        \* the library: "sync", "asset", "lite", "clouddaemon", "dfs", "disk",
                   \* or a script interface to "sync": "js", "ani"
    Api,           \* its functions and their programs
    Names,         \* the functions that are called; all of them if empty
    Threads,       \* the application's threads
    Ids,           \* the identities of its callbacks
    ServiceErrors, \* what the service answers when it refuses
    MaxCalls, MaxDeaths, MaxFaults

VARIABLES
    up, inst, known,   \* the service: does it run, which start of it, what it knows of this client
    proxy, mutex, late,\* serviceProxy_, the holder of instanceMutex_, abandoned load requests:
                       \* how many are open, and the starts that others were answered with
    flags,             \* the set flags: isFirstCall_, isCallbackRegistered_, startSyncPending_,
                       \* and the callbacks a script object holds
    lists, inactive,   \* the client's own callback tables; the tables switched off
    links, notices,    \* starts whose death we are told of; <<start, step>> of the death
                       \* callbacks to come and under way
    heard, adds,       \* the subscription to the service's starts; starts not yet told
    locks,             \* who holds the client's other locks
    calls, made,       \* the threads' calls
    faults, hist       \* faults so far; what happened that the properties must know

serviceVars == <<up, inst, known>>
proxyVars == <<proxy, mutex, late>>
tableVars == <<flags, lists, inactive>>
samgrVars == <<links, notices, heard, adds>>
vars == <<serviceVars, proxyVars, tableVars, samgrVars, locks, calls, made, faults, hist>>

\* The thread of the service manager that tells of a start.
Listener == "listener"
Actors == Threads \cup {Listener}
None == "none"
Locks == {"p2p", "p2pex", "progress", "download"}

Library == IF Client \in {"js", "ani"} THEN "sync" ELSE Client
Called == IF Names = {} THEN DOMAIN Api ELSE Names
Program(name) == Inlined(Api[name])

Idle == [api |-> None, prog |-> << >>, at |-> 0, ret |-> "ok", px |-> 0, cb |-> None, born |-> 0, served |-> FALSE,
         load |-> None, todo |-> {}, any |-> FALSE, tries |-> 0]

Running(t) == calls[t].at > 0
StepOf(t) == calls[t].prog[calls[t].at]
At(t, k) == Running(t) /\ calls[t].load = None /\ calls[t].at <= Len(calls[t].prog) /\ StepOf(t).k = k

\* The media library's callback has a fixed identity in the list of the
\* others, and the service knows the progress callbacks by the accessor.
Entry(tab, id) == IF tab = "media" THEN <<"sync", "media">> ELSE <<tab, id>>
ServiceEntry(tab, id) == IF tab = "progress" THEN <<tab, "accessor">> ELSE Entry(tab, id)

\* std::lock_guard: whatever way a call ends, its locks are free.
Freed(t) == [l \in Locks |-> IF locks[l] = t THEN None ELSE locks[l]]
Asks(prog) == \E i \in DOMAIN prog : prog[i].k \in {"call", "elsewhere"}
\* A function that has nothing to ask the service counts as served.
Ended(t, ret) ==
    [calls EXCEPT ![t] = [@ EXCEPT !.prog = << >>, !.at = 0, !.ret = ret, !.load = None, !.todo = {}, !.px = 0,
                                   !.served = @ \/ ~Asks(calls[t].prog)]]
Undone(t) == {StepOf(t).undo[i] : i \in DOMAIN StepOf(t).undo}
Moved(t, n) == [calls EXCEPT ![t].at = @ + n]
Skip(n) == CASE n = "1" -> 2 [] n = "2" -> 3 [] n = "5" -> 6

Effect(eff, e) ==
    /\ lists' = CASE eff = "add" -> lists \cup {e} [] eff = "remove" -> lists \ {e} [] OTHER -> lists
    /\ inactive' = CASE eff = "deactivate" /\ e \in lists -> inactive \cup {e}
                     [] eff \in {"add", "remove", "activate"} -> inactive \ {e}
                     [] OTHER -> inactive

-----------------------------------------------------------------------------
(* The service and its manager                                             *)

Fault == faults < MaxFaults /\ faults' = faults + 1

\* Loaded by this client or by another.
ServiceStarts ==
    /\ ~up /\ inst <= MaxDeaths
    /\ up' = TRUE /\ inst' = inst + 1 /\ known' = {}
    /\ adds' = IF heard = "yes" THEN adds \cup {inst + 1} ELSE adds
    /\ UNCHANGED <<proxyVars, tableVars, links, notices, heard, locks, calls, made, faults, hist>>

ServiceDies ==
    /\ up /\ inst <= MaxDeaths
    /\ up' = FALSE /\ known' = {}
    /\ notices' = IF inst \in links THEN notices \cup {<<inst, "died">>} ELSE notices
    /\ links' = links \ {inst}
    /\ hist' = [hist EXCEPT !.unlinked = @ \/ ("asset" \in flags /\ inst \notin links)]
    /\ UNCHANGED <<inst, proxyVars, tableVars, heard, adds, locks, calls, made, faults>>

\* The death callback: the disk client and the daemon's client let go of the
\* proxy ...
OnRemoteDied(n) ==
    /\ <<n, "died">> \in notices /\ notices' = (notices \ {<<n, "died">>}) \cup {<<n, "forget">>}
    /\ Library = "disk" => mutex = None
    /\ proxy' = IF Library \in {"disk", "dfs"} THEN 0 ELSE proxy
    /\ UNCHANGED <<serviceVars, mutex, late, tableVars, links, heard, adds, locks, calls, made, faults, hist>>

\* ... the disk client switches its tables off, the asset client forgets its
\* registration, and the listed callbacks are told ...
ForgetCallbacks(n) ==
    /\ <<n, "forget">> \in notices /\ notices' = (notices \ {<<n, "forget">>}) \cup {<<n, "clear">>}
    /\ flags' = IF Library = "asset" THEN flags \ {"asset"} ELSE flags
    /\ LET tables == {e \in lists : e[1] = "table"}
       IN  /\ inactive' = IF Library = "disk" THEN inactive \cup tables ELSE inactive
           /\ hist' = IF Library = "disk" /\ up /\ inst # n
                        THEN [hist EXCEPT !.late = @ \cup (tables \cap known)] ELSE hist
    /\ UNCHANGED <<serviceVars, proxyVars, lists, links, heard, adds, locks, calls, made, faults>>

\* ... and last the flag is cleared.
ClearFirstCall(n) ==
    /\ <<n, "clear">> \in notices /\ notices' = notices \ {<<n, "clear">>}
    /\ flags' = flags \ {"flag"}
    /\ UNCHANGED <<serviceVars, proxyVars, lists, inactive, links, heard, adds, locks, calls, made, faults, hist>>

\* OnAddSystemAbility: the listener's thread runs ResetProxyCallback.
OnAddSystemAbility(n) ==
    /\ n \in adds /\ ~Running(Listener)
    /\ adds' = adds \ {n}
    /\ calls' = [calls EXCEPT ![Listener] = [Idle EXCEPT !.api = "ResetProxyCallback", !.prog = ResetProxyCallback, !.at = 1,
                                                         !.born = IF up THEN inst ELSE inst + 1]]
    /\ UNCHANGED <<serviceVars, proxyVars, tableVars, links, notices, heard, locks, made, faults, hist>>

-----------------------------------------------------------------------------
(* The functions                                                           *)

Begin(t, name, id) ==
    /\ made < MaxCalls /\ ~Running(t)
    /\ made' = made + 1
    /\ calls' = [calls EXCEPT ![t] = [Idle EXCEPT !.api = name, !.prog = Program(name), !.at = 1, !.cb = id,
                                                  !.born = IF up THEN inst ELSE inst + 1]]
    /\ UNCHANGED <<serviceVars, proxyVars, tableVars, samgrVars, locks, faults, hist>>

Return(t) ==
    /\ Running(t) /\ calls[t].at > Len(calls[t].prog)
    /\ calls' = Ended(t, calls[t].ret)
    /\ locks' = Freed(t)
    /\ UNCHANGED <<serviceVars, proxyVars, tableVars, samgrVars, made, faults, hist>>

TestArguments(t) ==
    /\ At(t, "check")
    /\ \/ calls' = Moved(t, 1) /\ UNCHANGED <<flags, locks>>
       \/ calls' = Ended(t, StepOf(t).code) /\ flags' = flags \ Undone(t) /\ locks' = Freed(t)
    /\ UNCHANGED <<serviceVars, proxyVars, lists, inactive, samgrVars, made, faults, hist>>

\* What a call does with the proxy it got, null being 0.
GotProxy(t, p) ==
    IF p # 0
      THEN /\ calls' = [calls EXCEPT ![t] = [@ EXCEPT !.at = @ + 1, !.px = p, !.load = None]]
           /\ UNCHANGED <<flags, locks>>
      ELSE IF StepOf(t).k = "getagain" /\ calls[t].tries < 2
        THEN calls' = [calls EXCEPT ![t] = [@ EXCEPT !.tries = @ + 1, !.load = None]] /\ UNCHANGED <<flags, locks>>
        ELSE /\ calls' = Ended(t, StepOf(t).code)
             /\ flags' = flags \ Undone(t)
             /\ locks' = Freed(t)

\* ServiceProxy::GetInstance, under instanceMutex_: the running service is
\* taken, otherwise it is loaded and the thread waits for the answer.
GetInstance(t) ==
    /\ At(t, "get") \/ At(t, "getagain")
    /\ mutex = None
    /\ IF up THEN GotProxy(t, inst) /\ proxy' = inst /\ UNCHANGED <<mutex, faults, hist>>
       ELSE \/ /\ calls' = [calls EXCEPT ![t].load = "asked"] /\ mutex' = t
               /\ UNCHANGED <<proxy, flags, locks, faults, hist>>
            \/ /\ Fault /\ GotProxy(t, 0) /\ UNCHANGED <<proxy, mutex>>
               /\ hist' = [hist EXCEPT !.failed = @ \/ t = Listener]
    /\ UNCHANGED <<serviceVars, late, lists, inactive, samgrVars, made>>

\* Mutant: a proxy is kept, whatever has become of its service.
KeepsProxy(p, n) == IF p # 0 THEN p ELSE n
\* The lite library keeps a proxy it has.
OnLoadSystemAbilitySuccess(p, n) == IF Library = "lite" /\ p # 0 THEN p ELSE n
OnLoadSystemAbilityFail == 0

LoadAnswered(t) ==
    /\ calls[t].load = "asked" /\ up
    /\ proxy' = OnLoadSystemAbilitySuccess(proxy, inst)
    /\ calls' = [calls EXCEPT ![t].load = "loaded"]
    /\ UNCHANGED <<serviceVars, mutex, late, tableVars, samgrVars, locks, made, faults, hist>>

\* The condition variable: woken by the answer, or when its time is up.
\* A load that failed wakes nobody early.
LoadWaited(t) ==
    /\ calls[t].load # None
    /\ mutex' = None
    /\ IF calls[t].load = "loaded"
         THEN GotProxy(t, proxy) /\ UNCHANGED <<proxy, late, faults, hist>>
         ELSE /\ Fault /\ GotProxy(t, 0)
              /\ \/ late' = [late EXCEPT !.open = @ + 1] /\ UNCHANGED proxy
                 \/ proxy' = OnLoadSystemAbilityFail /\ UNCHANGED late
              /\ hist' = [hist EXCEPT !.failed = @ \/ t = Listener]
    /\ UNCHANGED <<serviceVars, lists, inactive, samgrVars, made>>

\* A request that was given up is answered with the service that runs then.
LateAnswer ==
    /\ late.open > 0
    /\ \/ up /\ late' = [open |-> late.open - 1, sent |-> late.sent \cup {inst}] /\ UNCHANGED proxy
       \/ late' = [late EXCEPT !.open = @ - 1] /\ proxy' = OnLoadSystemAbilityFail
    /\ UNCHANGED <<serviceVars, mutex, tableVars, samgrVars, locks, calls, made, faults, hist>>

\* The answer arrives, however late.
LateAnswerArrives(n) ==
    /\ n \in late.sent /\ late' = [late EXCEPT !.sent = @ \ {n}]
    /\ proxy' = OnLoadSystemAbilitySuccess(proxy, n)
    /\ hist' = [hist EXCEPT !.overtaken = @ \/ ~up \/ n # inst]
    /\ UNCHANGED <<serviceVars, mutex, tableVars, samgrVars, locks, calls, made, faults>>

\* GetInstanceWithoutLoad, and the cloud daemon's proxy.
GetInstanceWithoutLoad(t) ==
    /\ At(t, "peek") /\ mutex = None
    /\ IF up THEN GotProxy(t, inst) /\ proxy' = inst ELSE GotProxy(t, 0) /\ UNCHANGED proxy
    /\ UNCHANGED <<serviceVars, mutex, late, lists, inactive, samgrVars, made, faults, hist>>

\* DistributedFileDaemonProxy::GetInstance: kept until its death is told.
GetCachedInstance(t) ==
    /\ At(t, "cached") /\ mutex = None
    /\ \/ proxy # 0 /\ GotProxy(t, proxy) /\ UNCHANGED <<proxy, links, faults>>
       \/ proxy = 0 /\ up /\ GotProxy(t, inst) /\ proxy' = inst /\ links' = links \cup {inst} /\ UNCHANGED faults
       \/ proxy = 0 /\ up /\ Fault /\ GotProxy(t, 0) /\ UNCHANGED <<proxy, links>>
       \/ proxy = 0 /\ ~up /\ GotProxy(t, 0) /\ UNCHANGED <<proxy, links, faults>>
    /\ UNCHANGED <<serviceVars, mutex, late, lists, inactive, notices, heard, adds, made, hist>>

\* The call itself; a dead service answers nothing.
Answers(t) == IF up /\ calls[t].px = inst THEN {"ok"} \cup ServiceErrors ELSE {"E_BROKEN_IPC"}
CallService(t) ==
    /\ At(t, "call")
    /\ \E ret \in Answers(t) :
         /\ calls' = [calls EXCEPT ![t] = [@ EXCEPT !.at = @ + 1, !.ret = ret, !.served = (ret = "ok")]]
         /\ LET e == ServiceEntry(StepOf(t).tab, calls[t].cb)
            IN  known' = CASE ret = "ok" /\ StepOf(t).eff = "add" -> known \cup {e}
                           [] ret = "ok" /\ StepOf(t).eff = "remove" -> known \ {e}
                           [] OTHER -> known
         /\ hist' = [hist EXCEPT !.dropped = @ /\ ~(ret = "ok" /\ StepOf(t).tab = "progress")]
    /\ UNCHANGED <<up, inst, proxyVars, tableVars, samgrVars, locks, made, faults>>

\* SubscribeListener: once, and only while a sync callback is listed.  The
\* manager tells of a service that runs already.  A refused subscription
\* is not tried again; without a manager the next call tries.
SubscribeListener(list) ==
    \/ /\ heard # "no" \/ ~\E e \in list : e[1] = "sync"
       /\ UNCHANGED <<heard, adds, faults>>
    \/ Fault /\ UNCHANGED <<heard, adds>>
    \/ /\ heard = "no" /\ \E e \in list : e[1] = "sync"
       /\ \/ heard' = "yes" /\ adds' = (IF up THEN adds \cup {inst} ELSE adds) /\ UNCHANGED faults
          \/ heard' = "deaf" /\ Fault /\ UNCHANGED adds

\* Changes of the client's tables.  A callback listed only after the
\* service was started anew may have been missed by the listener.
ChangeTable(t) ==
    /\ At(t, "do") \/ At(t, "ifok") \/ At(t, "iffailed")
    /\ LET s == StepOf(t)
           e == Entry(s.tab, calls[t].cb)
           applies == CASE s.k = "do" -> TRUE [] s.k = "ifok" -> calls[t].ret = "ok"
                        [] OTHER -> calls[t].ret # "ok"
       IN  IF ~applies THEN UNCHANGED <<tableVars, heard, adds, faults, hist>>
           ELSE CASE s.eff = "subscribe" -> SubscribeListener(lists) /\ UNCHANGED <<tableVars, hist>>
                  [] s.eff = "clear" -> /\ flags' = flags \ {s.tab}
                                        /\ UNCHANGED <<lists, inactive, heard, adds, faults, hist>>
                  [] OTHER -> /\ Effect(s.eff, e)
                              /\ hist' = [hist EXCEPT !.raced = IF s.eff = "add" /\ calls[t].px # inst
                                                                  THEN @ \cup {e} ELSE @]
                              /\ UNCHANGED <<flags, heard, adds, faults>>
    /\ calls' = Moved(t, 1)
    /\ UNCHANGED <<serviceVars, proxyVars, links, notices, locks, made>>

ConversionOf(m, ret) ==
    CASE m = "ok" -> ret
      [] m = "ndk" -> ConvertToErrorCode(ret)
      [] m \in KitModes -> KitResult(m, ret)
      [] OTHER -> Converted(m, ret)
ReturnFailure(t) ==
    /\ At(t, "guard")
    /\ IF calls[t].ret = "ok" THEN calls' = Moved(t, 1) /\ UNCHANGED <<flags, locks>>
       ELSE /\ calls' = Ended(t, ConversionOf(StepOf(t).code, calls[t].ret))
            /\ flags' = flags \ Undone(t)
            /\ locks' = Freed(t)
    /\ UNCHANGED <<serviceVars, proxyVars, lists, inactive, samgrVars, made, faults, hist>>

\* atomic_flag: test_and_set, and test.
TestFlag(t) ==
    /\ At(t, "first") \/ At(t, "skipif")
    /\ LET s == StepOf(t)
       IN  /\ calls' = Moved(t, IF s.tab \in flags THEN Skip(s.code) ELSE 1)
           /\ flags' = IF s.k = "first" THEN flags \cup {s.tab} ELSE flags
    /\ UNCHANGED <<serviceVars, proxyVars, lists, inactive, samgrVars, locks, made, faults, hist>>

\* startSyncPending_, and a script object's callback: a second caller has
\* nothing to do.
TestPending(t) ==
    /\ At(t, "pend")
    /\ IF StepOf(t).tab \in flags THEN calls' = Ended(t, "ok") /\ locks' = Freed(t)
                              ELSE calls' = Moved(t, 1) /\ UNCHANGED locks
    /\ flags' = flags \cup {StepOf(t).tab}
    /\ UNCHANGED <<serviceVars, proxyVars, lists, inactive, samgrVars, made, faults, hist>>

\* GetDownloadIdsByUri and the list of observers: nothing listed, nothing to do.
TestListed(t) ==
    /\ At(t, "listed")
    /\ IF Entry(StepOf(t).tab, calls[t].cb) \in lists THEN calls' = Moved(t, 1) /\ UNCHANGED locks
                                                     ELSE calls' = Ended(t, "ok") /\ locks' = Freed(t)
    /\ UNCHANGED <<serviceVars, proxyVars, tableVars, samgrVars, made, faults, hist>>

\* AddDeathRecipient, which fails on a dead object.
LinkToDeath(t) ==
    /\ At(t, "link")
    /\ IF up /\ calls[t].px = inst THEN links' = links \cup {inst} /\ UNCHANGED <<flags, hist>>
       ELSE /\ flags' = IF StepOf(t).eff = "clear" THEN flags \ {"flag"} ELSE flags
            /\ hist' = [hist EXCEPT !.unlinked = TRUE]
            /\ UNCHANGED links
    /\ calls' = Moved(t, 1)
    /\ UNCHANGED <<serviceVars, proxyVars, lists, inactive, notices, heard, adds, locks, made, faults>>

TakeLock(t) ==
    /\ At(t, "hold") /\ locks[StepOf(t).tab] = None
    /\ locks' = [locks EXCEPT ![StepOf(t).tab] = t] /\ calls' = Moved(t, 1)
    /\ UNCHANGED <<serviceVars, proxyVars, tableVars, samgrVars, made, faults, hist>>

GiveLock(t) ==
    /\ At(t, "release")
    /\ locks' = [locks EXCEPT ![StepOf(t).tab] = None] /\ calls' = Moved(t, 1)
    /\ UNCHANGED <<serviceVars, proxyVars, tableVars, samgrVars, made, faults, hist>>

\* ResetProxyCallback: a copy of the list, then each entry on its own.
Snapshot(t) ==
    /\ At(t, "snapshot")
    /\ calls' = [calls EXCEPT ![t] = [@ EXCEPT !.at = @ + 1, !.todo = {e \in lists : e[1] = StepOf(t).tab}]]
    /\ UNCHANGED <<serviceVars, proxyVars, tableVars, samgrVars, locks, made, faults, hist>>

RegisterEach(t) ==
    /\ At(t, "each")
    /\ \/ calls[t].todo = {} /\ calls' = Moved(t, 1) /\ UNCHANGED <<known, hist>>
       \/ \E e \in calls[t].todo, ret \in Answers(t) :
            /\ calls' = [calls EXCEPT ![t] = [@ EXCEPT !.todo = @ \ {e}, !.any = @ \/ ret = "ok"]]
            /\ known' = IF ret = "ok" THEN known \cup {e} ELSE known
            /\ hist' = [hist EXCEPT !.failed = @ \/ ret \in ServiceErrors]
    /\ UNCHANGED <<up, inst, proxyVars, tableVars, samgrVars, locks, made, faults>>

UnlessAny(t) ==
    /\ At(t, "unlessany")
    /\ calls' = Moved(t, IF calls[t].any THEN 1 ELSE Skip(StepOf(t).code))
    /\ UNCHANGED <<serviceVars, proxyVars, tableVars, samgrVars, locks, made, faults, hist>>

\* CloudDiskProgressCallbackClient: one callback for an accessor.
AddProgressCallback(t) ==
    /\ At(t, "addonce")
    /\ LET e == Entry("progress", calls[t].cb)
           other == \E o \in lists : o[1] = "progress" /\ o # e
       IN  IF other THEN calls' = Ended(t, StepOf(t).code) /\ locks' = Freed(t) /\ UNCHANGED lists
           ELSE /\ calls' = [calls EXCEPT ![t] = [@ EXCEPT !.at = @ + 1, !.any = (e \notin lists)]]
                /\ lists' = lists \cup {e} /\ UNCHANGED locks
    /\ UNCHANGED <<serviceVars, proxyVars, flags, inactive, samgrVars, made, faults, hist>>

RemoveProgressCallback(t) ==
    /\ At(t, "takeout")
    /\ LET e == Entry("progress", calls[t].cb)
       IN  IF e \notin lists THEN calls' = Ended(t, StepOf(t).code) /\ locks' = Freed(t) /\ UNCHANGED <<lists, hist>>
           ELSE /\ calls' = Moved(t, 1) /\ lists' = lists \ {e} /\ UNCHANGED locks
                /\ hist' = [hist EXCEPT !.dropped = TRUE]
    /\ UNCHANGED <<serviceVars, proxyVars, flags, inactive, samgrVars, made, faults>>

RemoveAddedCallback(t) ==
    /\ At(t, "ifadded")
    /\ calls' = Moved(t, 1)
    /\ lists' = IF calls[t].ret # "ok" /\ calls[t].any THEN lists \ {Entry("progress", calls[t].cb)} ELSE lists
    /\ UNCHANGED <<serviceVars, proxyVars, flags, inactive, samgrVars, locks, made, faults, hist>>

\* The sync folder manager of the file access service, and the data observer
\* manager.
CallSyncFolderManager(t) ==
    /\ At(t, "elsewhere")
    /\ \E ret \in {"ok"} \cup IF StepOf(t).code = "ok" THEN ServiceErrors ELSE {StepOf(t).code} :
         calls' = [calls EXCEPT ![t] = [@ EXCEPT !.at = @ + 1, !.ret = ret, !.served = (ret = "ok")]]
    /\ UNCHANGED <<serviceVars, proxyVars, tableVars, samgrVars, locks, made, faults, hist>>

\* AllocField for the elements of an answer.
FillList(t) ==
    /\ At(t, "fill")
    /\ \/ calls' = Moved(t, 1) /\ UNCHANGED <<locks, faults>>
       \/ Fault /\ calls' = Ended(t, StepOf(t).code) /\ locks' = Freed(t)
    /\ UNCHANGED <<serviceVars, proxyVars, tableVars, samgrVars, made, hist>>

ConvertResult(t) ==
    /\ At(t, "convert")
    /\ calls' = [calls EXCEPT ![t] = [@ EXCEPT !.at = @ + 1, !.ret = ConversionOf(StepOf(t).code, @)]]
    /\ UNCHANGED <<serviceVars, proxyVars, tableVars, samgrVars, locks, made, faults, hist>>

-----------------------------------------------------------------------------
Init ==
    /\ up \in BOOLEAN /\ inst = (IF up THEN 1 ELSE 0) /\ known = {}
    /\ proxy = 0 /\ mutex = None /\ late = [open |-> 0, sent |-> {}]
    /\ flags = {} /\ lists = {} /\ inactive = {}
    /\ links = {} /\ notices = {} /\ heard = "no" /\ adds = {}
    /\ locks = [l \in Locks |-> None]
    /\ calls = [t \in Actors |-> Idle] /\ made = 0
    /\ faults = 0
    /\ hist = [raced |-> {}, late |-> {}, dropped |-> FALSE, failed |-> FALSE, unlinked |-> FALSE,
               overtaken |-> FALSE]

Next ==
    \/ ServiceStarts \/ ServiceDies \/ LateAnswer
    \/ \E n \in 1..inst : \/ OnRemoteDied(n) \/ ForgetCallbacks(n) \/ ClearFirstCall(n)
                         \/ OnAddSystemAbility(n) \/ LateAnswerArrives(n)
    \/ \E t \in Threads, name \in Called, id \in Ids : Begin(t, name, id)
    \/ \E t \in Actors :
         \/ Return(t) \/ TestArguments(t) \/ GetInstance(t) \/ LoadAnswered(t) \/ LoadWaited(t)
         \/ GetInstanceWithoutLoad(t) \/ GetCachedInstance(t) \/ CallService(t) \/ ChangeTable(t)
         \/ ReturnFailure(t) \/ TestFlag(t) \/ TestPending(t) \/ TestListed(t) \/ LinkToDeath(t)
         \/ TakeLock(t) \/ GiveLock(t) \/ Snapshot(t) \/ RegisterEach(t) \/ UnlessAny(t)
         \/ AddProgressCallback(t) \/ RemoveProgressCallback(t) \/ RemoveAddedCallback(t)
         \/ CallSyncFolderManager(t) \/ FillList(t) \/ ConvertResult(t)

Spec == Init /\ [][Next]_vars

-----------------------------------------------------------------------------
Tables == {"sync", "upload", "asset", "task", "table", "change", "progress", "download", "observer"}
TypeOK ==
    /\ up \in BOOLEAN /\ inst \in 0..(MaxDeaths + 1) /\ proxy \in 0..inst /\ mutex \in Actors \cup {None}
    /\ late.open \in 0..MaxFaults /\ late.sent \subseteq 1..inst /\ flags \subseteq {"flag", "asset", "pending", "on", "fileon", "uploadon"}
    /\ \A e \in lists \cup known : e[1] \in Tables /\ e[2] \in Ids \cup {"media", "accessor"}
    /\ inactive \subseteq lists
    /\ links \subseteq 1..inst /\ notices \subseteq (1..inst) \X {"died", "forget", "clear"} /\ adds \subseteq 1..inst
    /\ heard \in {"no", "yes", "deaf"} /\ locks \in [Locks -> Actors \cup {None}]
    /\ \A t \in Actors : calls[t].at \in 0..30 /\ calls[t].px \in 0..inst
    /\ made \in 0..MaxCalls /\ faults \in 0..MaxFaults

Quiet == \A t \in Actors : ~Running(t)

\* When the service was started anew and that was told without a fault, it
\* knows every callback the client lists, but for one listed just as the
\* listener had copied the lists (ResetProxyCallback against RegisterCallback).
CallbacksAreKnownAgain ==
    up /\ heard = "yes" /\ adds = {} /\ Quiet /\ ~hist.failed =>
        \A e \in lists : e[1] \in {"sync", "upload"} => e \in known \cup hist.raced

\* While the flag says that the client is told of the service's death, it is,
\* or is about to be; otherwise no later call would link to a new service
\* (SetDeathRecipient and its death callback).  Not so for the asset client
\* and the client of the cloud daemon, which do not look at the result of
\* AddDeathRecipient and keep the flag when it failed.
FlagMeansLinked ==
    "flag" \in flags /\ Library \in {"sync", "disk", "lite"} =>
        (up /\ inst \in links) \/ notices # {} \/ \E t \in Actors : At(t, "link")

\* A registered asset callback is known to the running service, unless the
\* service died between the registration and the link to its death, or the
\* callback was registered after an earlier death callback had cleared
\* isCallbackRegistered_ and before it cleared isFirstCall_, so that no link
\* was made.
AssetCallbackIsKnown ==
    "asset" \in flags /\ Quiet /\ notices = {} /\ up /\ ~hist.unlinked => \E e \in known : e[1] = "asset"

\* Whatever way the calls ended, none of them left startSyncPending_ behind,
\* which would turn every later start away.
PendingIsCleared == Quiet => "pending" \notin flags

\* A call uses no service that was dead before it began: a stale proxy is
\* replaced (GetInstance and the load callback), unless the late answer to a
\* request that was given up told of a service that has died since.  Not so
\* for the lite library, whose load callback keeps the proxy it has, and for
\* the client of the distributed file daemon, which keeps it until it is told
\* of the death.
ProxiesAreFresh ==
    Library \in {"sync", "asset", "disk", "clouddaemon"} /\ ~hist.overtaken =>
        \A t \in Actors : calls[t].px # 0 => calls[t].px >= calls[t].born

\* Success is what the service said: no early return, default or conversion
\* makes a call a success that the service did not serve.  Not so for the
\* functions that have nothing to ask, that are done when the service is not
\* there or the callback is, and for six of a script's that tell of a
\* missing permission only.
DoneAlready == {"StopSync", "StopFileSync", "StartSyncWithCallback", "CloudSync_on", "FileSync_on", "onUploadProgress",
                "CloudSync_stop", "FileSync_stop", "Cache_stop", "Download_stop", "unregisterChange",
                "cleanAllFileCache", "getCachedTotalSize"}
ForPermissionsOnly == {"changeAppCloudSwitch", "notifyDataChange", "notifyEventChange", "disableCloud",
                       "enableCloud", "clean"}
SuccessIsServed ==
    \A t \in Threads :
      calls[t].api # None /\ ~Running(t) /\ calls[t].ret = "ok" =>
          calls[t].served \/ calls[t].api \in DoneAlready \cup ForPermissionsOnly

\* A script learns no code of the native library, but from the two functions
\* on observers and from the download's stop, which throw them as they are
\* (Convert2ErrNum).
NoNativeCode ==
    Client \in {"js", "ani"} =>
      \A t \in Threads :
        ~Running(t) /\ calls[t].api \notin {"registerChange", "unregisterChange", "Download_stop"} =>
            calls[t].ret \notin DOMAIN ErrCodeTable

\* A dynamic script's object that holds a callback is listed with the native
\* library under it: a registration that failed lets go of it, so that the
\* script can try again (CloudSyncNapi::OnCallback, RegisterUploadProgress).
HeldCallbackIsListed ==
    Client = "js" /\ Quiet =>
        /\ "on" \in flags \/ "fileon" \in flags => \E e \in lists : e[1] = "sync"
        /\ "uploadon" \in flags => \E e \in lists : e[1] = "upload"

\* The client's switch of a callback table.
OnCallback(e) == e \notin inactive

\* A table the service knows lets the service's requests through, unless
\* the late notice of an earlier death has switched it off; and the service
\* knows no progress callback that the client has dropped, unless the call
\* that dropped it failed (UnregisterCallbackTable, RegisterProgressCallback).
KnownCallbacksAreServed ==
    Quiet /\ Library = "disk" =>
        /\ \A e \in known : e[1] = "table" => OnCallback(e) \/ e \in hist.late
        /\ (\E e \in known : e[1] = "progress") => hist.dropped \/ \E e \in lists : e[1] = "progress"
=============================================================================
