----------------------------- MODULE RemoteAssets -----------------------------
(***************************************************************************)
(* Assets that cloudsyncservice downloads from other devices: the calls    *)
(* DownloadAsset, the sessions of SessionManager and SoftbusAdapter, the   *)
(* messages of FileTransferManager, its task count, which keeps the        *)
(* service loaded, and the callback that hears of the results.  This       *)
(* device requests, the Peers serve.                                       *)
(***************************************************************************)
EXTENDS Integers, Sequences, FiniteSets, SequencesExt

CONSTANTS Peers, Tasks, MaxFaults, MaxCallbacks

VARIABLES
    thread,     \* task -> [at, peer, last]: its DownloadAsset thread
    loaded,     \* remoteObjectMap_
    count,      \* device -> taskCount_
    record,     \* device -> DOWNLOAD_REMOTE_ASSET_TASK is recorded
    infos,      \* taskInfos_ of this device
    session,    \* peer -> cached send session: [open, cached]
    wire,       \* messages under way: [peer, type, task, result]
    handler,    \* the thread that handles a response here: [at, task, last]
    closing,    \* OnSessionClosed under way: [at, peer]
    lost,       \* tasks whose request or answer was not sent or not understood
    broken,     \* a session has broken
    served,     \* task -> what the peer answered
    proxy,      \* callbackProxy_: the number of a registration, or 0
    regs,       \* registrations: [alive]
    reports,    \* task -> results that OnDownloadFinshed was called with
    faults

me == "me"
Results == {"ok", "notexist", "sendfile"}
Idle == [at |-> "idle", peer |-> me, last |-> 0]
NotClosing == [at |-> "idle", peer |-> me]
NoHandler == [at |-> "idle", task |-> me, last |-> 0]

calls == <<thread, loaded, infos>>
counts == <<count, record>>
callback == <<proxy, regs>>
vars == <<calls, counts, session, wire, handler, closing, lost, broken, served, callback, reports, faults>>

TypeOK ==
    /\ \A t \in Tasks : thread[t].at \in {"idle", "count", "send", "add", "dec", "drop", "done"}
    /\ handler.at \in {"idle", "dec", "drop", "remove"}
    /\ closing.at \in {"idle", "remove", "store", "complete"} /\ lost \subseteq Tasks
    /\ \A d \in Peers \cup {me} : count[d] \in Int /\ record[d] \in BOOLEAN
    /\ infos \subseteq Tasks /\ proxy \in 0..Len(regs)

Init ==
    /\ thread = [t \in Tasks |-> Idle] /\ loaded = {} /\ infos = {}
    /\ count = [d \in Peers \cup {me} |-> 0] /\ record = [d \in Peers \cup {me} |-> FALSE]
    /\ session = [p \in Peers |-> [open |-> FALSE, cached |-> FALSE]]
    /\ wire = <<>> /\ handler = NoHandler /\ closing = NotClosing /\ lost = {} /\ broken = FALSE
    /\ served = [t \in Tasks |-> "none"] /\ proxy = 0 /\ regs = <<>>
    /\ reports = [t \in Tasks |-> <<>>] /\ faults = 0

Fault == faults < MaxFaults /\ faults' = faults + 1
At(t, pc) == thread' = [thread EXCEPT ![t].at = pc]

-----------------------------------------------------------------------------
(* The callback                                                            *)

AddCallback ==
    /\ Len(regs) < MaxCallbacks
    /\ regs' = Append(regs, TRUE) /\ proxy' = Len(regs) + 1
    /\ UNCHANGED <<calls, counts, session, wire, handler, closing, lost, broken, served, reports, faults>>

\* The death of any registered object, also of one that was replaced, drops
\* the callback.
CallbackDied(i) ==
    /\ i \in DOMAIN regs /\ regs[i]
    /\ regs' = [regs EXCEPT ![i] = FALSE] /\ proxy' = 0
    /\ UNCHANGED <<calls, counts, session, wire, handler, closing, lost, broken, served, reports, faults>>

OnDownloadFinshed(t, result) ==
    reports' = IF proxy = 0 THEN reports ELSE [reports EXCEPT ![t] = Append(@, result)]

-----------------------------------------------------------------------------
(* A download here                                                         *)

\* LoadRemoteSA: a device whose service is known, or found now.
LoadRemoteSA(p) == loaded' = loaded \cup {p}

RemoteDied(p) ==
    /\ p \in loaded /\ Fault
    /\ loaded' = loaded \ {p}
    /\ UNCHANGED <<thread, infos, counts, session, wire, handler, closing, lost, broken, served, callback, reports>>

\* StartTask, the first half of IncTransTaskCount.
DownloadAsset(t, p) ==
    /\ thread[t] = Idle /\ LoadRemoteSA(p)
    /\ thread' = [thread EXCEPT ![t] = [at |-> "count", peer |-> p, last |-> 0]]
    /\ record' = [record EXCEPT ![me] = TRUE]
    /\ UNCHANGED <<infos, count, session, wire, handler, closing, lost, broken, served, callback, reports, faults>>

\* The second half.  A uri without a bundle name ends the task.
IncTransTaskCount(t, validUri) ==
    /\ thread[t].at = "count" /\ At(t, IF validUri THEN "send" ELSE "dec")
    /\ count' = [count EXCEPT ![me] = @ + 1]
    /\ UNCHANGED <<loaded, infos, record, session, wire, handler, closing, lost, broken, served, callback, reports, faults>>

\* A new session is cached even when Bind fails, as AcceptSesion marks it opened
\* before; only without a socket there is none.
OpenSession(p) ==
    \/ session' = [session EXCEPT ![p] = [open |-> TRUE, cached |-> TRUE]] /\ UNCHANGED faults
    \/ Fault /\ \E socket \in BOOLEAN : session' = [session EXCEPT ![p] = [open |-> FALSE, cached |-> socket]]

\* A cached session is used whatever became of it.
CreateSession(p) == IF session[p].cached THEN UNCHANGED <<session, faults>> ELSE OpenSession(p)

\* PackData and UnPackData carry type, result, task and uri over unchanged.
Message(p, to, type, t, result) == [peer |-> p, to |-> to, type |-> type, task |-> t, result |-> result]

SendData(t) ==
    LET p == thread[t].peer IN
    /\ thread[t].at = "send"
    /\ \/ /\ CreateSession(p) /\ session'[p].open
          /\ wire' = Append(wire, Message(p, p, "req", t, "ok"))
          /\ At(t, "add") /\ UNCHANGED reports
       \/ /\ CreateSession(p) /\ ~session'[p].open
          /\ OnDownloadFinshed(t, "send") /\ At(t, "dec") /\ UNCHANGED wire
       \/ /\ session[p].open /\ Fault
          /\ OnDownloadFinshed(t, "send") /\ At(t, "dec") /\ UNCHANGED <<session, wire>>
    /\ UNCHANGED <<loaded, infos, counts, handler, closing, lost, broken, served, callback>>

AddTransTask(t) ==
    /\ thread[t].at = "add" /\ At(t, "done")
    /\ infos' = infos \cup {t}
    /\ UNCHANGED <<loaded, counts, session, wire, handler, closing, lost, broken, served, callback, reports, faults>>

\* DecTransTaskCount is fetch_sub, and then CompleteTask by whoever took the
\* last one, or store(0) by whoever went below.
FetchSub(d) == count' = [count EXCEPT ![d] = @ - 1]
Drop(d, last) ==
    IF last = 1 THEN record' = [record EXCEPT ![d] = FALSE] /\ UNCHANGED count
    ELSE count' = [count EXCEPT ![d] = 0] /\ UNCHANGED record

\* A step of the decrement by an actor at pc "dec"; next is where it goes on.
AfterSub(next) == IF count[me] > 1 THEN next ELSE "drop"

DecTransTaskCount(t) ==
    /\ \/ /\ thread[t].at = "dec" /\ FetchSub(me) /\ UNCHANGED record
          /\ thread' = [thread EXCEPT ![t].at = AfterSub("done"), ![t].last = count[me]]
       \/ thread[t].at = "drop" /\ Drop(me, thread[t].last) /\ At(t, "done")
    /\ UNCHANGED <<loaded, infos, session, wire, handler, closing, lost, broken, served, callback, reports, faults>>

-----------------------------------------------------------------------------
(* Messages: the peers answer, this device takes the answers               *)

Arrives(i, d) == i \in DOMAIN wire /\ wire[i].to = d /\ \A j \in 1..(i - 1) : wire[j].to # d \/ wire[j].peer # wire[i].peer

\* OnMessageHandle: a message that UnPackData refuses is dropped.
UnPackDataFails(i) ==
    /\ i \in DOMAIN wire /\ Arrives(i, wire[i].to) /\ Fault
    /\ (wire[i].to = me => handler.at = "idle")
    /\ wire' = RemoveAt(wire, i) /\ lost' = lost \cup {wire[i].task}
    /\ UNCHANGED <<calls, counts, session, handler, closing, broken, served, callback, reports>>

\* The peer counts the request; a file it could not send is uncounted.  The
\* answer goes back over the session of the request; that it could not be sent
\* is only logged.
HandleDownloadFileRequest(i, result, sent) ==
    LET m == wire[i] IN
    /\ i \in DOMAIN wire /\ m.type = "req" /\ Arrives(i, m.peer)
    /\ count' = IF result = "ok" THEN [count EXCEPT ![m.peer] = @ + 1] ELSE count
    /\ record' = [record EXCEPT ![m.peer] = result = "ok" \/ (@ /\ count[m.peer] > 0)]
    /\ served' = [served EXCEPT ![m.task] = result]
    /\ IF sent
       THEN /\ wire' = Append(RemoveAt(wire, i), Message(m.peer, me, "rsp", m.task, result))
            /\ UNCHANGED <<lost, faults>>
       ELSE wire' = RemoveAt(wire, i) /\ lost' = lost \cup {m.task} /\ Fault
    /\ UNCHANGED <<calls, session, handler, closing, broken, callback, reports>>

\* Mutant: a failed download is reported and not uncounted.
ResponseOfFailureKeepsCount(i) ==
    /\ handler.at = "idle" /\ i \in DOMAIN wire /\ wire[i].type = "rsp" /\ Arrives(i, me)
    /\ OnDownloadFinshed(wire[i].task, wire[i].result)
    /\ handler' = [at |-> IF wire[i].result = "ok" THEN "dec" ELSE "remove", task |-> wire[i].task, last |-> 0]
    /\ wire' = RemoveAt(wire, i)
    /\ UNCHANGED <<calls, counts, session, closing, lost, broken, served, callback, faults>>

HandleDownloadFileResponse(i) ==
    /\ handler.at = "idle" /\ i \in DOMAIN wire /\ wire[i].type = "rsp" /\ Arrives(i, me)
    /\ OnDownloadFinshed(wire[i].task, wire[i].result)
    /\ handler' = [at |-> "dec", task |-> wire[i].task, last |-> 0]
    /\ wire' = RemoveAt(wire, i)
    /\ UNCHANGED <<calls, counts, session, closing, lost, broken, served, callback, faults>>

ResponseDec ==
    /\ \/ /\ handler.at = "dec" /\ FetchSub(me) /\ UNCHANGED record
          /\ handler' = [handler EXCEPT !.at = AfterSub("remove"), !.last = count[me]]
       \/ handler.at = "drop" /\ Drop(me, handler.last) /\ handler' = [handler EXCEPT !.at = "remove"]
    /\ UNCHANGED <<calls, session, wire, closing, lost, broken, served, callback, reports, faults>>

RemoveTransTask ==
    /\ handler.at = "remove" /\ handler' = NoHandler
    /\ infos' = infos \ {handler.task}
    /\ UNCHANGED <<thread, loaded, counts, session, wire, closing, lost, broken, served, callback, reports, faults>>

-----------------------------------------------------------------------------
(* A session breaks                                                        *)

\* Messages on it are lost; the peer's OnSessionClosed runs with it.
SessionBreaks(p) ==
    /\ session[p].open /\ closing = NotClosing /\ Fault
    /\ session' = [session EXCEPT ![p].open = FALSE]
    /\ wire' = SelectSeq(wire, LAMBDA m : m.peer # p)
    /\ count' = [count EXCEPT ![p] = 0] /\ record' = [record EXCEPT ![p] = FALSE]
    /\ closing' = [at |-> "remove", peer |-> p] /\ broken' = TRUE
    /\ UNCHANGED <<calls, handler, lost, served, callback, reports>>

RemoveSendSession ==
    /\ closing.at = "remove" /\ closing' = [closing EXCEPT !.at = "store"]
    /\ session' = [session EXCEPT ![closing.peer].cached = FALSE]
    /\ UNCHANGED <<calls, counts, wire, handler, lost, broken, served, callback, reports, faults>>

\* taskCount_.store(0), then CompleteTask.
OnSessionClosed ==
    /\ \/ /\ closing.at = "store" /\ closing' = [closing EXCEPT !.at = "complete"]
          /\ count' = [count EXCEPT ![me] = 0] /\ UNCHANGED record
       \/ /\ closing.at = "complete" /\ closing' = NotClosing
          /\ record' = [record EXCEPT ![me] = FALSE] /\ UNCHANGED count
    /\ UNCHANGED <<calls, session, wire, handler, lost, broken, served, callback, reports, faults>>

Next ==
    \/ AddCallback \/ \E i \in DOMAIN regs : CallbackDied(i)
    \/ \E t \in Tasks :
        \/ \E p \in Peers : DownloadAsset(t, p)
        \/ \E valid \in BOOLEAN : IncTransTaskCount(t, valid)
        \/ SendData(t) \/ AddTransTask(t) \/ DecTransTaskCount(t)
    \/ \E i \in DOMAIN wire :
        \/ HandleDownloadFileResponse(i) \/ UnPackDataFails(i)
        \/ \E result \in Results, sent \in BOOLEAN : HandleDownloadFileRequest(i, result, sent)
    \/ ResponseDec \/ RemoveTransTask \/ RemoveSendSession \/ OnSessionClosed
    \/ \E p \in Peers : SessionBreaks(p) \/ RemoteDied(p)

Spec == Init /\ [][Next]_vars

-----------------------------------------------------------------------------
AtRest ==
    /\ \A t \in Tasks : thread[t].at \in {"idle", "done"}
    /\ handler = NoHandler /\ closing = NotClosing /\ wire = <<>>

\* The downloads that have been counted and not uncounted yet.
Counted ==
    {t \in Tasks : \/ thread[t].at \in {"send", "dec"} \/ \E i \in DOMAIN wire : wire[i].task = t
                   \/ handler.at = "dec" /\ handler.task = t} \cup lost

\* The count that keeps the service loaded is the number of the downloads under
\* way until a session breaks, which zeroes it.  Once nothing is under way it is
\* back at zero, in whatever order requests, answers and broken sessions came,
\* but for downloads whose request or answer was not sent or not understood:
\* nobody uncounts those.  Without faults the record is gone then, too.
TransfersAreCounted ==
    /\ ~broken => count[me] = Cardinality(Counted)
    /\ AtRest => count[me] \in 0..Cardinality(lost)
    /\ (AtRest /\ faults = 0) => ~record[me]

\* A task hears one result at most, and the peer's result if it served it.
ResultsAreTheServers ==
    \A t \in Tasks :
        /\ Len(reports[t]) <= 1
        /\ (reports[t] # <<>> /\ served[t] # "none") => reports[t] = <<served[t]>>
=============================================================================
