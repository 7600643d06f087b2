-------------------------------- MODULE IpcCalls --------------------------------
(***************************************************************************)
(* One call between two processes, step by step: the proxy writes the      *)
(* request, the stub reads it, calls the service and writes the answer,    *)
(* and the proxy reads that.  A parcel is a sequence of typed values that  *)
(* is read front to back; nothing in it says which argument a value is.    *)
(***************************************************************************)
EXTENDS DaemonIpc, TLC

CONSTANTS
    MaxLen,    \* the longest list that is sent
    MaxFaults  \* writes that fail for want of memory

VARIABLES
    call, code,        \* the call, and the steps of its two functions
    len, null,         \* the length of its list, whether its optional pointer is null
    side, at,          \* who runs: "proxy", "stub" or "done", and the next step of each
    data, reply,       \* what is left to read of the two parcels
    got, out,          \* what the stub, and the proxy, have read
    called, res,       \* whether the service ran, and its result
    status, ret,       \* what SendRequest returns, and what the caller gets
    refused, lost,     \* history: a condition failed; an unchecked write failed
    faults

parcelVars == <<data, reply>>
callVars == <<call, code, len, null>>
readVars == <<got, out>>
serviceVars == <<called, res>>
endVars == <<status, ret>>
historyVars == <<refused, lost, faults>>
vars == <<callVars, side, at, parcelVars, readVars, serviceVars, endVars, historyVars>>

ProxyOf(c) ==
    CASE c \in DOMAIN DaemonProxy -> DaemonProxy[c]
      [] c \in DOMAIN Callbacks -> Callbacks[c][1]
      [] OTHER -> Classes[c][1] \o <<Send>>
StubOf(c) ==
    CASE c \in DOMAIN DaemonProxy -> OnRemoteRequest(c)
      [] c \in DOMAIN Callbacks -> Callbacks[c][2]
      [] OTHER -> Classes[c][2] \o Unmarshalled
Calls == DOMAIN DaemonProxy \cup DOMAIN Callbacks \cup DOMAIN Classes

Kinds(ks) == {i \in DOMAIN code.proxy : code.proxy[i].k \in ks}
Lists == Kinds({"putmany"}) # {} \/ \E i \in DOMAIN code.stub : code.stub[i].k = "putmany"

TypeOK ==
    /\ call \in Calls /\ len \in 0 .. MaxLen /\ side \in {"proxy", "stub", "done"}
    /\ res \in {"none", "ok", "failed"} /\ status \in {"none", "ok", "failed", "broken"}
    /\ ret \in {"none", "void", "ok", "failed", "broken"} /\ faults <= MaxFaults

Init ==
    /\ call \in Calls /\ code = [proxy |-> ProxyOf(call), stub |-> StubOf(call)]
    /\ len \in IF Lists THEN 0 .. MaxLen ELSE {0}
    /\ null \in IF Kinds({"putifany"}) # {} THEN BOOLEAN ELSE {FALSE}
    /\ side = "proxy" /\ at = [proxy |-> 1, stub |-> 1]
    /\ data = <<>> /\ reply = <<>> /\ got = <<>> /\ out = <<>>
    /\ called = FALSE /\ res = "none" /\ status = "none" /\ ret = "none"
    /\ refused = FALSE /\ lost = FALSE /\ faults = 0

-----------------------------------------------------------------------------
(* Parcels                                                                 *)

LenName == <<"0", "1", "2", "3", "4", "5", "6">>[len + 1]
IsLenOf(n) == n \in {"switchData", "appActionsData", "reqKey", "data", "changesData", "changeData", "uriList",
                     "uriInfo", "deviceList"} /\ Lists

\* The value of a parameter, named after it.
Value(n) ==
    CASE n = "res" -> res
      [] null /\ n = "listener" -> "null"
      [] IsLenOf(n) -> LenName
      [] OTHER -> n

Cells(s) == <<<<s.f[1], Value(s.f[2])>>>>
Many(group) == [i \in 1 .. len * Len(group) |-> LET f == group[((i - 1) % Len(group)) + 1] IN <<f[1], f[2]>>]

Step == code[side][at[side]]
Running == side # "done" /\ (side = "proxy" => at.proxy <= Len(code.proxy))
Do(ks) == Running /\ Step.k \in ks
Advance == at' = [at EXCEPT ![side] = @ + 1]
Onwards == Advance /\ UNCHANGED side

\* The function that runs returns an error before its end.
Breaks ==
    IF side = "proxy"
        THEN ret' = "broken" /\ side' = "done" /\ UNCHANGED <<at, status>>
        ELSE status' = "broken" /\ side' = "proxy" /\ UNCHANGED <<at, ret>>

Out(cells) == IF side = "proxy" THEN data' = data \o cells /\ UNCHANGED reply
                                ELSE reply' = reply \o cells /\ UNCHANGED data
In == IF side = "proxy" THEN reply ELSE data
Consume(n) == IF side = "proxy" THEN reply' = SubSeq(reply, n + 1, Len(reply)) /\ UNCHANGED data
                                ELSE data' = SubSeq(data, n + 1, Len(data)) /\ UNCHANGED reply
Learn(n, v) == IF side = "proxy" THEN out' = (n :> v) @@ out /\ UNCHANGED got
                                 ELSE got' = (n :> v) @@ got /\ UNCHANGED out

-----------------------------------------------------------------------------
(* Steps                                                                   *)

Write ==
    /\ Do({"put", "tryput", "putifany", "putmany"})
    /\ Out(CASE Step.k = "putmany" -> Cells(Step) \o Many(Step.group)
             [] Step.k = "putifany" /\ null -> <<>>
             [] OTHER -> Cells(Step))
    /\ Onwards /\ UNCHANGED <<callVars, readVars, serviceVars, endVars, historyVars>>

WriteFails ==
    /\ Do({"put", "tryput", "putifany", "putmany"}) /\ faults < MaxFaults /\ faults' = faults + 1
    /\ IF Step.k = "tryput" THEN Onwards /\ lost' = TRUE /\ UNCHANGED <<refused, endVars>>
                            ELSE Breaks /\ refused' = TRUE /\ UNCHANGED lost
    /\ UNCHANGED <<callVars, parcelVars, readVars, serviceVars>>

\* A value is there and of the type the reader expects.
Read ==
    /\ Do({"get", "tryget", "getifany"}) /\ In # <<>> /\ In[1][1] = Step.f[1]
    /\ Learn(Step.f[2], In[1][2]) /\ Consume(1)
    /\ Onwards /\ UNCHANGED <<callVars, serviceVars, endVars, historyVars>>

\* The bytes of another type: the read fails, or makes something of them.
Misread ==
    /\ Do({"get", "tryget", "getifany"}) /\ In # <<>> /\ In[1][1] # Step.f[1]
    /\ \/ Learn(Step.f[2], "garbled") /\ Consume(1) /\ Onwards /\ UNCHANGED endVars
       \/ Step.k = "get" /\ Breaks /\ UNCHANGED <<parcelVars, readVars>>
    /\ UNCHANGED <<callVars, serviceVars, historyVars>>

\* Nothing is left: an unchecked read gives zero, or a null pointer.
ReadNothing ==
    /\ Do({"get", "tryget", "getifany"}) /\ In = <<>>
    /\ IF Step.k = "get" THEN Breaks /\ UNCHANGED readVars
                         ELSE /\ Learn(Step.f[2], IF Step.f[2] = "res" THEN "ok" ELSE "null")
                              /\ Onwards /\ UNCHANGED endVars
    /\ UNCHANGED <<callVars, parcelVars, serviceVars, historyVars>>

\* The size, its bounds, and then that many groups of the right types.
Whole(s, n) ==
    /\ Len(In) > n * Len(s.group)
    /\ \A i \in 1 .. n * Len(s.group) : In[i + 1][1] = s.group[((i - 1) % Len(s.group)) + 1][1]
SizeRead(s) == In # <<>> /\ In[1][1] = s.f[1] /\ In[1][2] = LenName
Within(s) == len >= s.min /\ len <= s.max

ReadMany ==
    /\ Do({"getmany"}) /\ SizeRead(Step) /\ Within(Step) /\ Whole(Step, len)
    /\ Learn(Step.f[2], LenName) /\ Consume(1 + len * Len(Step.group))
    /\ Onwards /\ UNCHANGED <<callVars, serviceVars, endVars, historyVars>>

\* A list outside the reader's bounds is refused; that is the writer's
\* doing unless it has looked at the same bounds.
ReadManyFails ==
    /\ Do({"getmany"}) /\ ~(SizeRead(Step) /\ Within(Step) /\ Whole(Step, len)) /\ Breaks
    /\ refused' = (refused \/ (SizeRead(Step) /\ ~Within(Step) /\ Kinds({"bounds"}) = {}))
    /\ UNCHANGED <<callVars, parcelVars, readVars, serviceVars, lost, faults>>

CheckPasses ==
    /\ Do({"check", "bounds"}) /\ (Step.k = "bounds" => Within(Step))
    /\ Onwards /\ UNCHANGED <<callVars, parcelVars, readVars, serviceVars, endVars, historyVars>>

CheckFails ==
    /\ Do({"check", "bounds"}) /\ (Step.k = "bounds" => ~Within(Step))
    /\ Breaks /\ refused' = TRUE
    /\ UNCHANGED <<callVars, parcelVars, readVars, serviceVars, lost, faults>>

Serve ==
    /\ Do({"call", "notify"}) /\ called' = TRUE
    /\ res' \in IF Step.k = "call" THEN {"ok", "failed"} ELSE {"ok"}
    /\ Onwards /\ UNCHANGED <<callVars, parcelVars, readVars, endVars, historyVars>>

\* The early returns after a failed result.
Looks ==
    /\ Do({"failunlessok", "endunlessok"})
    /\ LET ok == IF side = "proxy" THEN out["res"] = "ok" ELSE res = "ok"
       IN  CASE ok -> Onwards /\ UNCHANGED endVars
             [] ~ok /\ Step.k = "failunlessok" -> Breaks
             [] ~ok /\ Step.k = "endunlessok" /\ side = "stub" ->
                    status' = "ok" /\ side' = "proxy" /\ UNCHANGED <<at, ret>>
             [] OTHER -> ret' = out["res"] /\ side' = "done" /\ UNCHANGED <<at, status>>
    /\ UNCHANGED <<callVars, parcelVars, readVars, serviceVars, historyVars>>

StubReturns ==
    /\ Do({"return"})
    /\ status' = (IF Step.s = "res" THEN res ELSE "ok") /\ side' = "proxy"
    /\ UNCHANGED <<callVars, at, parcelVars, readVars, serviceVars, ret, historyVars>>

SendRequest ==
    /\ Do({"send", "async"}) /\ Advance /\ side' = "stub"
    /\ UNCHANGED <<callVars, parcelVars, readVars, serviceVars, endVars, historyVars>>

TestStatus ==
    /\ Do({"status"})
    /\ IF status = "ok" THEN Onwards /\ UNCHANGED endVars ELSE Breaks
    /\ UNCHANGED <<callVars, parcelVars, readVars, serviceVars, historyVars>>

ProxyReturns ==
    /\ side = "proxy" /\ at.proxy > Len(code.proxy)
    /\ ret' = (CASE "res" \in DOMAIN out -> out["res"] [] Kinds({"status"}) = {} -> "void" [] OTHER -> "ok")
    /\ side' = "done"
    /\ UNCHANGED <<callVars, at, parcelVars, readVars, serviceVars, status, historyVars>>

Next ==
    \/ Write \/ WriteFails \/ Read \/ Misread \/ ReadNothing \/ ReadMany \/ ReadManyFails
    \/ CheckPasses \/ CheckFails \/ Serve \/ Looks \/ StubReturns \/ SendRequest \/ TestStatus \/ ProxyReturns

Spec == Init /\ [][Next]_vars

-----------------------------------------------------------------------------

Arguments == {code.proxy[i].f[2] : i \in Kinds({"put", "tryput", "putifany", "putmany"})}

\* The service is called with the arguments the caller gave, every one at
\* its place: the handlers of DaemonStub, of the listeners and callbacks, and
\* ReadFromParcel of the classes read what the other side has written.
ArgumentsArrive == called /\ ~lost => got = [n \in Arguments |-> Value(n)]

\* A handler refuses a request, and a call ends with an error, for a reason
\* only: a condition did not hold, a write failed, or the service failed.
RefusedForAReason ==
    ~lost /\ (status = "broken" \/ ret \in {"broken", "failed"}) => refused \/ res = "failed"

\* A caller that is told of success got it, with the service's answers.
\* The result of StartFuse is written unchecked and is not in the status.
SuccessIsReal ==
    ret = "ok" =>
        /\ called /\ (res = "ok" \/ (lost /\ call = "StartFuse"))
        /\ \A n \in DOMAIN out \ {"res"} : lost \/ out[n] = Value(n)
=============================================================================
