---------------------------- MODULE DaemonTransfers ----------------------------
(***************************************************************************)
(* Copies from another device over softbus: the client's TransListener,    *)
(* the daemon of this device (the sink: session names, listeners, the      *)
(* event handler's thread, softbus callbacks) and the daemon of the device *)
(* that has the files (the source).  A client's copy opens at most one     *)
(* session, which is named after the client here; the name softbus knows   *)
(* it by comes from a small pool and is used again.                        *)
(***************************************************************************)
EXTENDS Naturals, Sequences, FiniteSets

CONSTANTS
    Clients,    \* numbers, in the order in which their copies begin
    SESSION_COUNT,
    MaxCancels, MaxStops, MaxFaults

None == 0
SessionNames == 1 .. SESSION_COUNT

VARIABLES
    client,     \* client -> [at, name, block, res]
    pool,       \* sessionMap_ of SoftBusSessionPool: name -> client or None
    trans,      \* sessionTransMap_ of TransManager: name -> client or None
    server,     \* names in serverIdMap_
    queue,      \* events of the event handler of this device
    exec,       \* its thread: [at, client]
    remote,     \* the event handler's thread of the source: client -> step
    ses,        \* client -> its session: [source, sink, named, files]
    enders,     \* threads of the sink that end a copy: [by, who, ses, name, at, res]
    shared,     \* history: clients whose session name another copy had as well,
                \* or whose name the preparation or the end of another one was at
    left,       \* history: names that a step left behind
    cancels, faults

daemonVars == <<pool, trans, server>>
threadVars == <<queue, exec, remote>>
historyVars == <<shared, left>>
vars == <<client, daemonVars, threadVars, ses, enders, historyVars, cancels, faults>>

Name(c) == client[c].name

TypeOK ==
    /\ \A c \in Clients : client[c].name \in 0 .. SESSION_COUNT
    /\ \A n \in SessionNames : pool[n] \in Clients \cup {None} /\ trans[n] \in Clients \cup {None}
    /\ \A e \in enders : e.at \in {"notify", "delete", "close", "free"} /\ e.name \in SessionNames
    /\ server \subseteq SessionNames /\ left \subseteq SessionNames /\ shared \subseteq Clients

Init ==
    /\ client = [c \in Clients |-> [at |-> "idle", name |-> 0, block |-> "none", res |-> "none"]]
    /\ pool = [n \in SessionNames |-> None] /\ trans = [n \in SessionNames |-> None] /\ server = {}
    /\ queue = <<>> /\ exec = [at |-> "idle", client |-> None] /\ remote = [c \in Clients |-> "idle"]
    /\ ses = [c \in Clients |-> [source |-> "none", sink |-> "none", named |-> FALSE, files |-> "none"]]
    /\ enders = {} /\ shared = {} /\ left = {} /\ cancels = 0 /\ faults = 0

Fault == faults < MaxFaults /\ faults' = faults + 1
NoFault == UNCHANGED faults
MayFail(ok) == IF ok THEN NoFault ELSE Fault

\* The copies that meet when a step of c's works on a name: c's and another one's.
Met(c, n) ==
    LET others == {pool[n], trans[n]} \ {None, c} IN IF others = {} THEN {} ELSE others \cup {c}

At(c, a) == client' = [client EXCEPT ![c].at = a]

-----------------------------------------------------------------------------
(* TransManager: who is told what                                          *)

\* OnFinished and OnFailed of the client's TransListener.
Told(c, r) == client' = [client EXCEPT ![c].res = r]

\* NotifyFileFinished, NotifyFileFailed: the listener of the name is told.
Notify(n, r) == IF trans[n] = None THEN UNCHANGED client ELSE Told(trans[n], r)

DeleteTransTask(n) == trans' = [trans EXCEPT ![n] = None]

-----------------------------------------------------------------------------
(* PrepareSession, on a thread of the daemon                               *)

Begin(c) == client[c].at = "idle" /\ \A d \in Clients : d < c => client[d].at # "idle"

\* An argument, a permission or a uri that does not pass the checks.
PrepareSessionFails(c) ==
    /\ Begin(c) /\ Fault /\ At(c, "failed")
    /\ UNCHANGED <<daemonVars, threadVars, ses, historyVars, enders, cancels>>

Free == {n \in SessionNames : pool[n] = None}

\* StoreSessionAndListener: the first free name ...
GenerateSessionName(c) ==
    /\ Begin(c)
    /\ IF Free = {} THEN At(c, "failed") /\ UNCHANGED pool
       ELSE LET n == CHOOSE x \in Free : \A y \in Free : x <= y IN
            /\ pool' = [pool EXCEPT ![n] = c]
            /\ client' = [client EXCEPT ![c].at = "add", ![c].name = n]
    /\ NoFault /\ UNCHANGED <<trans, server, threadVars, ses, historyVars, enders, cancels>>

\* ... then the listener, unless the name has one already.
AddTransTask(c) ==
    /\ client[c].at = "add" /\ At(c, "post")
    /\ trans' = [trans EXCEPT ![Name(c)] = IF @ = None THEN c ELSE @]
    /\ shared' = IF trans[Name(c)] = None THEN shared ELSE shared \cup {c, trans[Name(c)]}
    /\ NoFault /\ UNCHANGED <<pool, server, threadVars, ses, left, enders, cancels>>

\* A daemon that stops has no event handler: the name and the listener stay.
SendEvent(c, ok) ==
    /\ client[c].at = "post" /\ MayFail(ok)
    /\ IF ok THEN At(c, "block") /\ queue' = Append(queue, c) /\ UNCHANGED left
       ELSE At(c, "failed") /\ left' = left \cup {Name(c)} /\ UNCHANGED queue
    /\ UNCHANGED <<daemonVars, exec, remote, ses, shared, enders, cancels>>

\* GetValue of the block: a value, or the time is over.
BlockReturns(c, timeout) ==
    /\ client[c].at = "block" /\ MayFail(~timeout)
    /\ timeout \/ client[c].block # "none"
    /\ client' = [client EXCEPT ![c].block = "none",
                                ![c].at = IF ~timeout /\ client[c].block = "ok" THEN "waiting" ELSE "delete"]
    /\ left' = IF timeout THEN left \cup {Name(c)} ELSE left
    /\ UNCHANGED <<daemonVars, threadVars, ses, shared, enders, cancels>>

\* DeleteSessionAndListener: whoever has the name by now loses its session ...
DeleteSessionInfo(c) ==
    /\ client[c].at = "delete" /\ At(c, "unlist")
    /\ pool' = [pool EXCEPT ![Name(c)] = None] /\ shared' = shared \cup Met(c, Name(c))
    /\ NoFault /\ UNCHANGED <<trans, server, threadVars, ses, enders, left, cancels>>

\* ... and its listener.
DeleteListener(c) ==
    /\ client[c].at = "unlist" /\ At(c, "failed")
    /\ DeleteTransTask(Name(c)) /\ shared' = shared \cup Met(c, Name(c))
    /\ NoFault /\ UNCHANGED <<pool, server, threadVars, ses, enders, left, cancels>>

\* WaitForCopyResult
CopyReturns(c) ==
    /\ client[c].at = "waiting" /\ client[c].res # "none" 
    /\ client' = [client EXCEPT ![c].at = "returned", ![c].res = "none"]
    /\ NoFault /\ UNCHANGED <<daemonVars, threadVars, ses, historyVars, enders, cancels>>

-----------------------------------------------------------------------------
(* The event handler's thread: PrepareSessionInner                         *)

Reply(c, r) == [client EXCEPT ![c].block = r]
ExecIdle == exec' = [at |-> "idle", client |-> None]

CreateSessionServer(ok) ==
    /\ exec.at = "idle" /\ queue # <<>> /\ queue' = Tail(queue) /\ MayFail(ok)
    /\ LET c == Head(queue) IN
       IF ok THEN /\ server' = server \cup {Name(c)}
                  /\ exec' = [at |-> "request", client |-> c] /\ UNCHANGED client
       ELSE client' = Reply(c, "error") /\ UNCHANGED <<server, exec>>
    /\ UNCHANGED <<pool, trans, remote, ses, historyVars, enders, cancels>>

\* Daemon::Copy calls the source, which puts the request into its queue.
RequestSendFile(ok) ==
    /\ exec.at = "request" /\ MayFail(ok)
    /\ IF ok THEN exec' = [exec EXCEPT !.at = "remote"] /\ remote' = [remote EXCEPT ![exec.client] = "open"]
       ELSE exec' = [exec EXCEPT !.at = "close"] /\ UNCHANGED remote
    /\ UNCHANGED <<client, daemonVars, queue, ses, historyVars, enders, cancels>>

\* The source answers, or its block's time is over while it goes on.
RequestReturns(timeout) ==
    /\ exec.at = "remote" /\ MayFail(~timeout)
    /\ LET c == exec.client IN
       /\ timeout \/ remote[c] \in {"ok", "error"}
       /\ IF ~timeout /\ remote[c] = "ok" THEN client' = Reply(c, "ok") /\ ExecIdle
          ELSE exec' = [exec EXCEPT !.at = "close"] /\ UNCHANGED client
       /\ remote' = IF timeout THEN remote ELSE [remote EXCEPT ![c] = "idle"]
       /\ left' = IF timeout THEN left \cup {Name(c)} ELSE left
    /\ UNCHANGED <<daemonVars, queue, ses, shared, enders, cancels>>

\* The name is free from here on, its listener not yet deleted.
CloseAfterError ==
    /\ exec.at = "close" /\ ExecIdle
    /\ LET c == exec.client IN
       /\ client' = Reply(c, "error")
       /\ server' = server \ {Name(c)} /\ pool' = [pool EXCEPT ![Name(c)] = None]
    /\ NoFault /\ UNCHANGED <<trans, queue, remote, ses, historyVars, enders, cancels>>

-----------------------------------------------------------------------------
(* The source: RequestSendFileInner and the callbacks of a sender          *)

OpenSession(c, ok) ==
    /\ remote[c] = "open" /\ (\A d \in Clients : remote[d] # "send") /\ MayFail(ok)
    /\ IF ok /\ Name(c) \in server
       THEN /\ remote' = [remote EXCEPT ![c] = "send"]
            /\ ses' = [ses EXCEPT ![c].source = "open", ![c].sink = "pending"]
       ELSE remote' = [remote EXCEPT ![c] = "error"] /\ UNCHANGED ses
    /\ UNCHANGED <<client, daemonVars, queue, exec, historyVars, enders, cancels>>

SourceCloses(c) == ses' = [ses EXCEPT ![c].source = "closed"]

CopySendFile(c, ok) ==
    /\ remote[c] = "send" /\ MayFail(ok)
    /\ IF ok /\ ses[c].source = "open"
       THEN remote' = [remote EXCEPT ![c] = "ok"] /\ ses' = [ses EXCEPT ![c].files = "sending"]
       ELSE remote' = [remote EXCEPT ![c] = "error"] /\ SourceCloses(c)
    /\ UNCHANGED <<client, daemonVars, queue, exec, historyVars, enders, cancels>>

\* OnSendFileFinished, OnFileTransError and OnSendFileShutdown of the sender.
SenderEnds(c) ==
    /\ ses[c].source = "open"
    /\ \/ ses[c].files = "sent" /\ NoFault
       \/ ses[c].files = "sending" /\ Fault
       \/ ses[c].sink = "gone" /\ NoFault
    /\ SourceCloses(c)
    /\ UNCHANGED <<client, daemonVars, threadVars, historyVars, enders, cancels>>

-----------------------------------------------------------------------------
(* The sink's softbus callbacks                                            *)

Down(s) == [s EXCEPT !.sink = "gone", !.named = FALSE, !.files = "none"]

\* OnCopyReceiveBind: a peer of another account is refused, and nobody told.
OnSinkSessionOpened(c, same) ==
    /\ ses[c].sink = "pending" /\ MayFail(same)
    /\ IF same THEN ses' = [ses EXCEPT ![c].sink = "bound", ![c].named = TRUE] /\ UNCHANGED <<server, left>>
       ELSE ses' = [ses EXCEPT ![c] = Down(@)] /\ server' = server \ {Name(c)} /\ left' = left \cup {Name(c)}
    /\ UNCHANGED <<client, pool, trans, threadVars, enders, shared, cancels>>

\* OnReceiveFileProcess: the files come in; where to is not modelled.
OnReceiveFileProcess(c) ==
    /\ ses[c].sink = "bound" /\ ses[c].files = "sending" /\ ses[c].source = "open"
    /\ ses' = [ses EXCEPT ![c].files = "sent"]
    /\ NoFault /\ UNCHANGED <<client, daemonVars, threadVars, enders, historyVars, cancels>>

\* A thread begins to end the copy of c; it goes by the name from here on.
Begins(by, c, d, at, r) ==
    enders' = enders \cup {[by |-> by, who |-> c, ses |-> d, name |-> Name(c), at |-> at, res |-> r]}

OnReceiveFileFinished(c) ==
    /\ ses[c].sink = "bound" /\ ses[c].files = "sent"
    /\ ses' = [ses EXCEPT ![c].files = "finished"]
    /\ IF ses[c].named THEN Begins("finish", c, None, "notify", "ok") ELSE UNCHANGED enders
    /\ NoFault /\ UNCHANGED <<client, daemonVars, threadVars, historyVars, cancels>>

\* Mutant: a session that ends without an error is not reported.
EndsUnnoticed(c) == Begins("receiver", c, c, "close", "none")

ReceiverEnds(c) == Begins("receiver", c, c, "notify", "error")

\* OnFileTransError and OnReceiveFileShutdown, of which there is one.
OnReceiveFileShutdown(c) ==
    /\ ses[c].sink = "bound" /\ ses[c].named /\ \A e \in enders : e.by = "receiver" => e.who # c
    /\ \/ ses[c].source = "closed" /\ NoFault
       \/ ses[c].source = "open" /\ Fault
    /\ ReceiverEnds(c)
    /\ UNCHANGED <<client, daemonVars, threadVars, ses, historyVars, cancels>>

\* A file of several was not received: the listener is told, and kept.
OnReceiveFileReport(c) ==
    /\ ses[c].sink = "bound" /\ ses[c].named /\ ses[c].files = "sending" /\ Fault
    /\ Notify(Name(c), "error")
    /\ UNCHANGED <<daemonVars, threadVars, ses, enders, historyVars, cancels>>

-----------------------------------------------------------------------------
(* Cancellation by the client, and by the connection manager               *)

Named(n) == {c \in Clients : Name(c) = n /\ ses[c].named}

\* CancelCopyTask by name, CloseSessionWithSessionName: the session of the
\* name, if there is one already, is taken off clientSessNameMap_.
CancelCopyTask(c) ==
    /\ client[c].at = "waiting" /\ cancels < MaxCancels /\ cancels' = cancels + 1
    /\ pool[Name(c)] # None
    /\ IF Named(Name(c)) = {} THEN Begins("cancel", c, None, "notify", "cancelled") /\ UNCHANGED ses
       ELSE \E d \in Named(Name(c)) :
                /\ Begins("cancel", c, d, "notify", "cancelled") /\ ses' = [ses EXCEPT ![d].named = FALSE]
    /\ NoFault /\ UNCHANGED <<client, daemonVars, threadVars, historyVars>>

\* CopyOnStop, for a session of this device.
CopyOnStop(c) ==
    /\ ses[c].named /\ cancels < MaxStops /\ cancels' = cancels + 1
    /\ Begins("stop", c, c, IF Name(c) \in server THEN "notify" ELSE "close", "cancelled")
    /\ NoFault /\ UNCHANGED <<client, daemonVars, threadVars, ses, historyVars>>

-----------------------------------------------------------------------------
(* The steps of an end, each under a lock of its own                       *)

Goes(e, at) == enders' = (enders \ {e}) \cup {[e EXCEPT !.at = at]}
Over(e) == enders' = enders \ {e}
MeetsOther(e) == shared' = shared \cup Met(e.who, e.name)

EndNotifies(e) ==
    /\ e.at = "notify" /\ Goes(e, "delete") /\ Notify(e.name, e.res) /\ MeetsOther(e)
    /\ NoFault /\ UNCHANGED <<daemonVars, threadVars, ses, left, cancels>>

\* A session that is not bound has no id yet, and CloseSession does nothing
\* for it.
EndDeletes(e) ==
    /\ e.at = "delete" /\ DeleteTransTask(e.name) /\ MeetsOther(e)
    /\ IF e.ses = None THEN Over(e) ELSE Goes(e, "close")
    /\ left' = IF e.by = "cancel" /\ e.ses = None THEN left \cup {e.name} ELSE left
    /\ NoFault /\ UNCHANGED <<client, pool, server, threadVars, ses, cancels>>

\* CloseSession: the sockets go ...
CloseSession(e) ==
    /\ e.at = "close" /\ Goes(e, "free") /\ MeetsOther(e)
    /\ server' = server \ {e.name} /\ ses' = [ses EXCEPT ![e.ses] = Down(@)]
    /\ NoFault /\ UNCHANGED <<client, pool, trans, threadVars, left, cancels>>

\* ... and the name is free.
FreeName(e) ==
    /\ e.at = "free" /\ Over(e) /\ MeetsOther(e) /\ pool' = [pool EXCEPT ![e.name] = None]
    /\ NoFault /\ UNCHANGED <<client, trans, server, threadVars, ses, left, cancels>>

Step ==
    \/ \E c \in Clients :
        \/ PrepareSessionFails(c) \/ GenerateSessionName(c) \/ AddTransTask(c) 
        \/ DeleteSessionInfo(c) \/ DeleteListener(c) \/ CopyReturns(c)
        \/ SenderEnds(c) \/ OnReceiveFileProcess(c) \/ OnReceiveFileFinished(c) \/ OnReceiveFileShutdown(c)
        \/ OnReceiveFileReport(c) \/ CancelCopyTask(c) \/ CopyOnStop(c)
        \/ \E b \in BOOLEAN : \/ SendEvent(c, b) \/ BlockReturns(c, b)
                              \/ OpenSession(c, b) \/ CopySendFile(c, b) \/ OnSinkSessionOpened(c, b)
    \/ \E b \in BOOLEAN : CreateSessionServer(b) \/ RequestSendFile(b) \/ RequestReturns(b)
    \/ CloseAfterError
    \/ \E e \in enders : EndNotifies(e) \/ EndDeletes(e) \/ CloseSession(e) \/ FreeName(e)

\* Nothing is asked any more once all copies have met under one name.
Next == shared # Clients /\ Step

Spec == Init /\ [][Next]_vars

-----------------------------------------------------------------------------
(* What is checked                                                         *)

Ended(c) == client[c].at \in {"idle", "failed", "returned"}

\* A client that waits without a time limit (WaitForCopyResult) can still be
\* told: its listener is registered under its name and its session has not
\* ended, unless another copy had the name as well, or the preparation or the
\* end of another copy was still at it; or a time-out, a refusal or a cancel
\* before the bind had left the name behind.
WaitingIsTold ==
    \A c \in Clients \ shared :
        client[c].at = "waiting" /\ client[c].res = "none" /\ Name(c) \notin left =>
            trans[Name(c)] = c /\ ses[c].sink \in {"pending", "bound"}

\* Once every copy has ended and every session is closed, no name is taken and
\* no listener or server socket is left, except of a name that a cancel before
\* the bind, a time-out, a refusal or a stopped event handler left behind.
NothingIsLeft ==
    /\ \A c \in Clients : Ended(c) /\ ses[c].sink \in {"none", "gone"}
    /\ queue = <<>> /\ exec.at = "idle" /\ enders = {} /\ shared = {}
    => \A n \in SessionNames \ left : pool[n] = None /\ trans[n] = None /\ n \notin server
=============================================================================
