---------------------------- MODULE ControlChannel ----------------------------
(***************************************************************************)
(* The control channels between distributedfiledaemons (ChannelManager,    *)
(* ControlCmdParser, SystemNotifier, and the calls of Daemon that use      *)
(* them): Clients each have at most one channel to one server.  A client   *)
(* asks whether it may connect and waits for the answer; it asks for the   *)
(* notification to be published and cancelled without waiting.             *)
(***************************************************************************)
EXTENDS Integers, Sequences

CONSTANTS Clients, MaxOps, MaxSockets, MaxFaults

VARIABLES
    channel,    \* clientNetworkSocketMap_ of each client: its socket, 0 for none
    outbox,     \* client -> requests posted to its event thread
    waiters,    \* client -> pendingResponses_: [msg, response]
    call,       \* client -> the call that holds connectMutex_: [at, type, msg, got]
    closers,    \* sockets that DestroyClientChannel has taken and not shut down yet
    sockets,    \* socket -> [client, live]
    wire,       \* messages on their way: [to, sock, type, msg, body], in order
    events,     \* softbus callbacks on their way: [to, kind, sock]
    serverMap,  \* serverNetworkSocketMap_ of the server
    notices,    \* notificationMap_ of the server, by networkId
    stuck,      \* ClearAllConnect waits for mutex_, which it holds itself
    answered,   \* <<client, msg, body>>: the answers that the server sent
    msgs,       \* client -> nextMsgId
    ops, faults

client == <<channel, outbox, waiters, call, closers, msgs>>
server == <<serverMap, notices, stuck, answered>>
vars == <<client, sockets, wire, events, server, ops, faults>>

NoId == "unknown"       \* the empty networkId
NoAnswer == "none"
Free == [at |-> "idle", type |-> "none", msg |-> 0, got |-> NoAnswer]

TypeOK ==
    /\ channel \in [Clients -> 0..MaxSockets] /\ serverMap \in [Clients -> 0..MaxSockets]
    /\ notices \subseteq Clients \cup {NoId}
    /\ \A c \in Clients : call[c].at \in {"idle", "send", "wait"}

Init ==
    /\ channel = [c \in Clients |-> 0] /\ serverMap = [c \in Clients |-> 0]
    /\ outbox = [c \in Clients |-> <<>>] /\ waiters = [c \in Clients |-> {}]
    /\ call = [c \in Clients |-> Free]
    /\ sockets = <<>> /\ wire = <<>> /\ events = {} /\ notices = {} /\ stuck = FALSE
    /\ closers = {} /\ answered = {} /\ msgs = [c \in Clients |-> 0] /\ ops = 0 /\ faults = 0

Count == ops < MaxOps /\ ops' = ops + 1
Fault == faults < MaxFaults /\ faults' = faults + 1
Live(s) == s # 0 /\ sockets[s].live

-----------------------------------------------------------------------------
(* The client                                                              *)

\* CreatControlLink keeps an existing channel; otherwise CreateClientChannel
\* binds a new socket, and the server is told of it.  When that fails the call
\* returns and nothing has changed.
CreatControlLink(c) ==
    IF channel[c] # 0 THEN UNCHANGED <<channel, sockets, events>>
    ELSE /\ Len(sockets) < MaxSockets
         /\ sockets' = Append(sockets, [client |-> c, live |-> TRUE])
         /\ channel' = [channel EXCEPT ![c] = Len(sockets) + 1]
         /\ events' = events \cup {[to |-> "server", kind |-> "connected", sock |-> Len(sockets) + 1]}

\* CheckRemoteAllowConnect and the two NotifyRemote...Notification, where the
\* versions allow them: the link, and a request with an identifier of its own.
Request(c, type) ==
    /\ call[c].at = "idle" /\ Count
    /\ CreatControlLink(c)
    /\ msgs' = [msgs EXCEPT ![c] = @ + 1]
    /\ call' = [call EXCEPT ![c] = [at |-> "send", type |-> type, msg |-> msgs[c] + 1, got |-> NoAnswer]]
    /\ UNCHANGED <<outbox, waiters, closers, wire, server, faults>>

Return(c, got) == call' = [call EXCEPT ![c].at = "idle", ![c].got = got]

\* SendRequest registers the waiter before the request is posted.
SendRequest(c) ==
    /\ call[c].at = "send" /\ channel[c] # 0
    /\ outbox' = [outbox EXCEPT ![c] = Append(@, [type |-> call[c].type, msg |-> call[c].msg])]
    /\ IF call[c].type = "check"
       THEN /\ waiters' = [waiters EXCEPT ![c] = @ \cup {[msg |-> call[c].msg, response |-> NoAnswer]}]
            /\ call' = [call EXCEPT ![c].at = "wait"]
       ELSE UNCHANGED waiters /\ Return(c, NoAnswer)
    /\ UNCHANGED <<channel, closers, msgs, sockets, wire, events, server, ops, faults>>

\* The channel is gone since, or the local networkId is not found, or PostTask
\* fails and the waiter is erased again.
SendRequestFails(c) ==
    /\ call[c].at = "send"
    /\ (channel[c] = 0 /\ UNCHANGED faults) \/ Fault
    /\ Return(c, NoAnswer)
    /\ UNCHANGED <<channel, outbox, waiters, closers, msgs, sockets, wire, events, server, ops>>

\* The event thread looks the channel up when it sends.
DoSendBytesAsync(c) ==
    /\ outbox[c] # <<>>
    /\ outbox' = [outbox EXCEPT ![c] = Tail(@)]
    /\ wire' = IF Live(channel[c])
               THEN Append(wire, [to |-> "server", sock |-> channel[c], type |-> Head(outbox[c]).type,
                                  msg |-> Head(outbox[c]).msg, body |-> NoAnswer])
               ELSE wire
    /\ UNCHANGED <<channel, waiters, call, closers, msgs, sockets, events, server, ops, faults>>

WaiterOf(c) == CHOOSE w \in waiters[c] : w.msg = call[c].msg

WaitOver(c, got) ==
    /\ Return(c, got)
    /\ waiters' = [waiters EXCEPT ![c] = @ \ {WaiterOf(c)}]
    /\ UNCHANGED <<channel, outbox, closers, msgs, sockets, wire, events, server, ops, faults>>

Answered(c) ==
    /\ call[c].at = "wait" /\ WaiterOf(c).response # NoAnswer
    /\ WaitOver(c, WaiterOf(c).response)

\* MAX_WAIT_TIME_MS are over.
TimedOut(c) ==
    /\ call[c].at = "wait" /\ WaiterOf(c).response = NoAnswer
    /\ WaitOver(c, NoAnswer)

\* CancelControlLink, of a call or of a clean-up that holds no connectMutex_
\* while a call may wait.
DestroyClientChannel(c) ==
    /\ channel[c] # 0 /\ Count
    /\ channel' = [channel EXCEPT ![c] = 0] /\ closers' = closers \cup {channel[c]}
    /\ UNCHANGED <<outbox, waiters, call, msgs, sockets, wire, events, server, faults>>

\* Outside the mutex; the server is told.
Shutdown(s) ==
    /\ s \in closers /\ closers' = closers \ {s}
    /\ sockets' = [sockets EXCEPT ![s].live = FALSE]
    /\ events' = IF sockets[s].live
                 THEN events \cup {[to |-> "server", kind |-> "closed", sock |-> s]} ELSE events
    /\ UNCHANGED <<channel, outbox, waiters, call, msgs, wire, server, ops, faults>>

-----------------------------------------------------------------------------
(* Softbus and the server                                                  *)

LinkBreaks(s) ==
    /\ s \in DOMAIN sockets /\ sockets[s].live /\ Fault
    /\ sockets' = [sockets EXCEPT ![s].live = FALSE]
    /\ events' = events \cup {[to |-> t, kind |-> "closed", sock |-> s] : t \in {"client", "server"}}
    /\ UNCHANGED <<client, wire, server, ops>>

\* Softbus reports the connects of one device in their order, and the close of
\* a socket after its connect.
Deliverable(e) ==
    \A d \in events :
        (d.kind = "connected" /\ d.to = e.to /\ sockets[d.sock].client = sockets[e.sock].client) =>
            IF e.kind = "closed" THEN d.sock # e.sock ELSE d.sock >= e.sock

OnSocketConnected(e) ==
    /\ e \in events /\ e.kind = "connected" /\ Deliverable(e)
    /\ serverMap' = [serverMap EXCEPT ![sockets[e.sock].client] = e.sock]
    /\ events' = events \ {e}
    /\ UNCHANGED <<client, sockets, wire, notices, stuck, answered, ops, faults>>

\* Only the entry with the socket that closed is dropped.
SocketDropped(m, s) == [c \in Clients |-> IF m[c] = s THEN 0 ELSE m[c]]

OnSocketClosed(e) ==
    /\ e \in events /\ e.kind = "closed" /\ Deliverable(e)
    /\ IF e.to = "client" THEN channel' = SocketDropped(channel, e.sock) /\ UNCHANGED serverMap
       ELSE serverMap' = SocketDropped(serverMap, e.sock) /\ UNCHANGED channel
    /\ events' = events \ {e}
    /\ UNCHANGED <<outbox, waiters, call, closers, msgs, sockets, wire, notices, stuck, answered,
                   ops, faults>>

\* A client's socket is not among the server's own client channels, so the
\* request keeps the empty networkId.
IdOf(sock) == NoId

CheckAllowConnect(id) == IF notices # {} /\ id \notin notices THEN "true" ELSE "false"

\* Messages of one socket arrive in their order; a message may be lost with it.
Arrives(i) == \A j \in 1..(i - 1) : wire[j].sock # wire[i].sock \/ wire[j].to # wire[i].to

\* The wire without its i-th message.
Received(i) == SubSeq(wire, 1, i - 1) \o SubSeq(wire, i + 1, Len(wire))

HandleRequest(i) ==
    /\ ~stuck /\ i \in DOMAIN wire /\ wire[i].to = "server" /\ Arrives(i)
    /\ LET m == wire[i]
           body == CheckAllowConnect(IdOf(m.sock))
       IN /\ IF m.type = "check" /\ Live(m.sock)
             THEN /\ wire' = Append(Received(i), [m EXCEPT !.to = "client",
                                               !.type = "response", !.body = body])
                  /\ answered' = answered \cup {<<sockets[m.sock].client, m.msg, body>>}
             ELSE wire' = Received(i) /\ UNCHANGED answered
          /\ notices' = CASE m.type = "publish" -> notices \cup {IdOf(m.sock)}
                          [] m.type = "cancel" -> notices \ {IdOf(m.sock)}
                          [] OTHER -> notices
    /\ UNCHANGED <<client, sockets, events, serverMap, stuck, ops, faults>>

\* The client's HandleRemoteBytes: an answer nobody waits for is dropped.
HandleResponse(i) ==
    /\ i \in DOMAIN wire /\ wire[i].to = "client" /\ Arrives(i)
    /\ LET m == wire[i]
           c == sockets[m.sock].client
       IN waiters' = [waiters EXCEPT ![c] =
                        {IF w.msg = m.msg THEN [w EXCEPT !.response = m.body] ELSE w : w \in @}]
    /\ wire' = Received(i)
    /\ UNCHANGED <<channel, outbox, call, closers, msgs, sockets, events, server, ops, faults>>

MessageLost(i) ==
    /\ i \in DOMAIN wire /\ ~Live(wire[i].sock)
    /\ wire' = Received(i)
    /\ UNCHANGED <<client, sockets, events, server, ops, faults>>

\* QuitGroup on the server.  ClearAllConnect keeps the read lock while
\* DestroyNotifyByNetworkId takes the write lock, if there is a notice.
ClearAllConnect ==
    /\ ~stuck /\ notices # {} /\ Fault
    /\ stuck' = TRUE
    /\ UNCHANGED <<client, sockets, wire, events, serverMap, notices, answered, ops>>

Next ==
    \/ \E c \in Clients :
        \/ \E type \in {"check", "publish", "cancel"} : Request(c, type)
        \/ SendRequest(c) \/ SendRequestFails(c) \/ DoSendBytesAsync(c)
        \/ Answered(c) \/ TimedOut(c) \/ DestroyClientChannel(c)
    \/ \E s \in DOMAIN sockets : LinkBreaks(s) \/ Shutdown(s)
    \/ \E e \in events : OnSocketConnected(e) \/ OnSocketClosed(e)
    \/ \E i \in DOMAIN wire : HandleRequest(i) \/ HandleResponse(i) \/ MessageLost(i)
    \/ ClearAllConnect

Spec == Init /\ [][Next]_vars

-----------------------------------------------------------------------------
\* Nobody takes an answer for another request, however late answers are: what a
\* call returns, or its waiter holds, is an answer that the server sent to that
\* very request of this client; and only a call that waits has a waiter.
AnswersMatch ==
    \A c \in Clients :
        /\ call[c].got # NoAnswer => <<c, call[c].msg, call[c].got>> \in answered
        /\ \A w \in waiters[c] :
            /\ call[c].at = "wait" /\ w.msg = call[c].msg
            /\ w.response # NoAnswer => <<c, w.msg, w.response>> \in answered

\* The server reaches a client through the socket that the client uses, once
\* the callbacks about the client's sockets are through, in whatever order
\* the close of an old and the connect of a new socket come.
ServerKnowsTheChannel ==
    \A c \in Clients :
        (~\E e \in events : sockets[e.sock].client = c) =>
            (Live(channel[c]) => serverMap[c] = channel[c]) /\ (serverMap[c] # 0 => Live(serverMap[c]))
=============================================================================
