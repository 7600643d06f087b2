-------------------------- MODULE ProgressManagerProofs --------------------------
(***************************************************************************)
(* What an accessor hears of a task, for every number of accessors, users, *)
(* callback objects, tasks and reports: in order, of its own user, up to   *)
(* the end, and undisturbed by late death notices.                         *)
(*                                                                         *)
(* A report is on its way three times over: queued, checked and about to   *)
(* be sent, and heard.  The invariant says of all three places what        *)
(* ReportsAreOrdered, EndIsReported and ReportsStayWithTheUser say of the  *)
(* last one.                                                               *)
(***************************************************************************)
EXTENDS ProgressManager, TLAPS

Numbers == 1..Len(info)

States == {None, "PENDING", "IN_PROGRESS"} \cup Terminal
Report == [sub : Nat, task : Tasks, state : States]
TaskFields == {"st", "user", "owner", "first", "reports"}

TypeInv ==
    /\ info \in Seq([key : Keys, user : Users, obj : Objects])
    /\ sub = [k \in Keys |-> sub[k]]
    /\ queue \in Seq(Report)
    /\ sending \in Report \cup {NoReport}
    /\ task = [t \in Tasks |-> task[t]]
    /\ \A t \in Tasks : task[t] = [f \in TaskFields |-> task[t][f]]
    /\ got \in [Tasks -> Seq(Nat \X States)]

(* The numbers in subscribers_ are subscribers of their key; death notices *)
(* are about objects that died.                                            *)
SubInv ==
    /\ \A k \in Keys : sub[k] # 0 => sub[k] \in Numbers /\ info[sub[k]].key = k
    /\ active = {sub[k] : k \in Keys} \ {0}
    /\ \A w \in notice : w.obj \in dead

(* The subscriber a task began with is one of its owner.                   *)
OwnerInv ==
    \A t \in Tasks :
        /\ task[t].st # None => task[t].owner \in Keys
        /\ task[t].first # 0 => /\ task[t].first \in Numbers
                                /\ info[task[t].first].key = task[t].owner

(* a may be reported before b.                                             *)
Before(a, b) == Rank(a) <= Rank(b) /\ a \notin Terminal

(* State s of a task that is now w may have been reported to subscriber n  *)
(* of the subscribers c.                                                   *)
Fits(c, w, n, s) ==
    /\ n \in 1..Len(c) /\ c[n].user = w.user /\ w.st # None
    /\ s = w.st \/ Before(s, w.st)

ReportInv ==
    /\ \A i \in 1..Len(queue) : Fits(info, task[queue[i].task], queue[i].sub, queue[i].state)
    /\ sending # NoReport => Fits(info, task[sending.task], sending.sub, sending.state)
    /\ \A t \in Tasks : \A i \in 1..Len(got[t]) : Fits(info, task[t], got[t][i][1], got[t][i][2])

(* The state of every report of task t that is on its way comes after what *)
(* was reported of t before.                                               *)
OrderInv ==
    /\ \A i, j \in 1..Len(queue) :
           i < j /\ queue[i].task = queue[j].task => Before(queue[i].state, queue[j].state)
    /\ sending # NoReport =>
           \A i \in 1..Len(queue) :
               sending.task = queue[i].task => Before(sending.state, queue[i].state)
    /\ \A j \in 1..Len(queue) : \A i \in 1..Len(got[queue[j].task]) :
           Before(got[queue[j].task][i][2], queue[j].state)
    /\ sending # NoReport =>
           \A i \in 1..Len(got[sending.task]) : Before(got[sending.task][i][2], sending.state)
    /\ ReportsAreOrdered

EndReport(t) == [sub |-> task[t].first, task |-> t, state |-> task[t].st]

(* The end of a task is on its way to a subscriber that stayed, or heard.  *)
EndInv ==
    \A t \in Tasks :
        (/\ task[t].st \in Terminal /\ task[t].first \in active
         /\ info[task[t].first].user = task[t].user)
        => \/ \E i \in 1..Len(queue) : queue[i] = EndReport(t)
           \/ sending = EndReport(t)
           \/ \E i \in 1..Len(got[t]) : got[t][i] = <<task[t].first, task[t].st>>

ProgressInv ==
    TypeInv /\ SubInv /\ OwnerInv /\ ReportInv /\ OrderInv /\ EndInv

-----------------------------------------------------------------------------
(* Facts about sequences and about the order of the states.                *)
LEMMA AppendFacts ==
    ASSUME NEW S, NEW q \in Seq(S), NEW x \in S
    PROVE  /\ Append(q, x) \in Seq(S)
           /\ Len(Append(q, x)) = Len(q) + 1
           /\ 1..Len(Append(q, x)) = 1..Len(q) \cup {Len(q) + 1}
           /\ \A i \in 1..Len(q) : Append(q, x)[i] = q[i]
           /\ Append(q, x)[Len(q) + 1] = x
           /\ \A i \in 1..Len(q) : i < Len(q) + 1
OBVIOUS

LEMMA TailFacts ==
    ASSUME NEW S, NEW q \in Seq(S), q # << >>
    PROVE  /\ Tail(q) \in Seq(S) /\ Head(q) = q[1] /\ q[1] \in S
           /\ 1 \in 1..Len(q)
           /\ \A i \in 1..Len(Tail(q)) : i + 1 \in 1..Len(q) /\ Tail(q)[i] = q[i + 1] /\ 1 < i + 1
           /\ \A i, j \in 1..Len(Tail(q)) : i < j => i + 1 < j + 1
           /\ \A j \in 1..Len(q) : j = 1 \/ \E i \in 1..Len(Tail(q)) : j = i + 1
<1>1. Len(q) \in Nat /\ Len(q) > 0 /\ Len(Tail(q)) = Len(q) - 1
  OBVIOUS
<1>2. \A j \in 1..Len(q) : j = 1 \/ (j - 1 \in 1..Len(Tail(q)) /\ j = (j - 1) + 1)
  BY <1>1
<1>3. /\ Tail(q) \in Seq(S) /\ Head(q) = q[1] /\ q[1] \in S
      /\ \A i \in 1..Len(Tail(q)) : Tail(q)[i] = q[i + 1]
  BY <1>1
<1>4. /\ 1 \in 1..Len(q)
      /\ \A i \in 1..Len(Tail(q)) : i + 1 \in 1..Len(q) /\ 1 < i + 1
      /\ \A i, j \in 1..Len(Tail(q)) : i < j => i + 1 < j + 1
  BY <1>1
<1> QED
  BY <1>2, <1>3, <1>4, Zenon

LEMMA ElementFacts ==
    ASSUME NEW S, NEW q \in Seq(S), NEW i \in 1..Len(q)
    PROVE  q[i] \in S
OBVIOUS

LEMMA BeforeFacts ==
    /\ \A a, b, c : Before(a, b) /\ Before(b, c) => Before(a, c)
    /\ Before("PENDING", "IN_PROGRESS") /\ Before("PENDING", "CANCELLED")
    /\ Before("IN_PROGRESS", "IN_PROGRESS") /\ Before("IN_PROGRESS", "COMPLETED")
    /\ Before("IN_PROGRESS", "CANCELLED")
BY DEF Before, Rank, Terminal

(* Reports name tasks.                                                     *)
LEMMA ReportFacts ==
    ASSUME TypeInv
    PROVE  /\ \A i \in 1..Len(queue) : queue[i] \in Report /\ queue[i].task \in Tasks
           /\ sending # NoReport => sending \in Report /\ sending.task \in Tasks
<1>1. \A r \in Report : r.task \in Tasks
  BY DEF Report
<1>2. \A i \in 1..Len(queue) : queue[i] \in Report
  BY ElementFacts, Zenon DEF TypeInv
<1> QED
  BY <1>1, <1>2, Zenon DEF TypeInv

-----------------------------------------------------------------------------
(* Steps of the registry: registrations are added, nothing on its way      *)
(* changes.                                                                *)
LEMMA InfoGrows ==
    ASSUME TypeInv, NEW k \in Keys, NEW u \in Users, NEW o \in Objects, Register(k, u, o)
    PROVE  /\ info' \in Seq([key : Keys, user : Users, obj : Objects])
           /\ Numbers' = Numbers \cup {Len(info')} /\ Len(info') \notin Numbers /\ Len(info') # 0
           /\ \A n \in Numbers : info'[n] = info[n]
           /\ info'[Len(info')] = [key |-> k, user |-> u, obj |-> o]
<1> DEFINE e == [key |-> k, user |-> u, obj |-> o]
<1>1. e \in [key : Keys, user : Users, obj : Objects]
  OBVIOUS
<1>2. info' = Append(info, e)
  BY DEF Register
<1> HIDE DEF e
<1>3. info \in Seq([key : Keys, user : Users, obj : Objects])
  BY DEF TypeInv
<1>4. Len(info) \in Nat
  BY <1>3
<1>5. /\ info' \in Seq([key : Keys, user : Users, obj : Objects])
      /\ Len(info') = Len(info) + 1 /\ Numbers' = Numbers \cup {Len(info')}
      /\ \A n \in Numbers : info'[n] = info[n]
      /\ info'[Len(info')] = e
  <2>1. /\ Append(info, e) \in Seq([key : Keys, user : Users, obj : Objects])
        /\ Len(Append(info, e)) = Len(info) + 1
        /\ 1..Len(Append(info, e)) = 1..Len(info) \cup {Len(info) + 1}
        /\ \A n \in 1..Len(info) : Append(info, e)[n] = info[n]
        /\ Append(info, e)[Len(info) + 1] = e
    BY <1>1, <1>3, <1>4
  <2> QED
    BY <1>2, <2>1 DEF Numbers
<1>6. Len(info') \notin Numbers /\ Len(info') # 0
  BY <1>4, <1>5 DEF Numbers
<1> QED
  BY <1>5, <1>6 DEF e

(* A step of the registry keeps what is on its way.                        *)
LEMMA RegistryStep ==
    ASSUME ProgressInv, UNCHANGED <<queue, sending, task, got>>,
           Numbers \subseteq Numbers', \A n \in Numbers : info'[n] = info[n],
           \A n \in active' : n \in active \/ n \notin Numbers,
           0 \notin active'
    PROVE  OwnerInv' /\ ReportInv' /\ OrderInv' /\ EndInv'
<1>1. OwnerInv'
  BY Zenon DEF ProgressInv, OwnerInv
<1>2. ReportInv'
  <2>1. \A w, n, s : Fits(info, w, n, s) => Fits(info', w, n, s)
    BY DEF Fits, Numbers
  <2> QED
    BY <2>1, Zenon DEF ProgressInv, ReportInv
<1>3. OrderInv'
  BY Zenon DEF ProgressInv, OrderInv, ReportsAreOrdered
<1>4. EndInv'
  <2> SUFFICES ASSUME NEW t \in Tasks, task[t].st \in Terminal, task[t].first \in active',
                      info'[task[t].first].user = task[t].user
               PROVE  \/ \E i \in 1..Len(queue) : queue[i] = EndReport(t)
                      \/ sending = EndReport(t)
                      \/ \E i \in 1..Len(got[t]) : got[t][i] = <<task[t].first, task[t].st>>
    BY DEF EndInv, EndReport
  <2>1. task[t].first \in Numbers
    BY Zenon DEF ProgressInv, OwnerInv
  <2> QED
    BY <2>1, Zenon DEF ProgressInv, EndInv
<1> QED
  BY <1>1, <1>2, <1>3, <1>4, Zenon
-----------------------------------------------------------------------------
Sends(n, t, s) == Submit([sub |-> n, task |-> t, state |-> s])

(* A step of task t to state s, reported to subscriber n or to nobody.     *)
LEMMA TaskStep ==
    ASSUME NEW t \in Tasks, NEW s \in States, NEW n \in Nat,
           TypeInv, ReportInv, OrderInv,
           task'[t].st = s, s # None, \A q \in Tasks \ {t} : task'[q] = task[q],
           task[t].st # None => Before(task[t].st, s) /\ task'[t].user = task[t].user,
           UNCHANGED <<info, sending, got>>,
           \/ queue' = queue
           \/ /\ Sends(n, t, s)
              /\ n \in Numbers /\ info[n].user = task'[t].user
    PROVE  queue' \in Seq(Report) /\ ReportInv' /\ OrderInv'
<1> DEFINE e == [sub |-> n, task |-> t, state |-> s]
<1>1. e \in Report /\ e.sub = n /\ e.task = t /\ e.state = s
  BY DEF Report
<1>3. \A q \in Tasks : \A m, x : Fits(info, task[q], m, x) => Fits(info', task'[q], m, x)
  BY BeforeFacts DEF Fits
<1>4. \A m, x : Fits(info, task[t], m, x) => Before(x, s)
  BY BeforeFacts DEF Fits
<1>5. CASE queue' = queue
  <2>1. ReportInv'
    BY <1>3, <1>5, ReportFacts, Zenon DEF ReportInv
  <2>2. OrderInv'
    BY <1>5, Zenon DEF OrderInv, ReportsAreOrdered
  <2> QED
    BY <1>5, <2>1, <2>2 DEF TypeInv
<1>6. CASE Sends(n, t, s) /\ n \in Numbers /\ info[n].user = task'[t].user
  <2>0. queue' = Append(queue, e)
    BY <1>6 DEF Sends, Submit
  <2> HIDE DEF e
  <2>1. queue \in Seq(Report) /\ Len(queue) \in Nat
    BY DEF TypeInv
  <2>2. /\ queue' \in Seq(Report)
        /\ Len(queue') = Len(queue) + 1
        /\ 1..Len(queue') = 1..Len(queue) \cup {Len(queue) + 1}
        /\ \A i \in 1..Len(queue) : queue'[i] = queue[i]
        /\ queue'[Len(queue) + 1] = e
    BY <1>1, <2>0, <2>1
  <2>3. ReportInv'
    <3>1. Fits(info', task'[t], n, s)
      BY <1>6 DEF Fits, Numbers
    <3>2. \A i \in 1..Len(queue') : Fits(info', task'[queue'[i].task], queue'[i].sub,
            queue'[i].state)
      <4> SUFFICES ASSUME NEW i \in 1..Len(queue')
                   PROVE  Fits(info', task'[queue'[i].task], queue'[i].sub, queue'[i].state)
        OBVIOUS
      <4>1. CASE i \in 1..Len(queue)
        <5>1. Fits(info, task[queue[i].task], queue[i].sub, queue[i].state) /\
                queue[i].task \in Tasks
          BY <4>1, ReportFacts, Zenon DEF ReportInv
        <5> QED
          BY <1>3, <2>2, <4>1, <5>1, Zenon
      <4>2. CASE i = Len(queue) + 1
        BY <1>1, <2>2, <3>1, <4>2, Zenon
      <4> QED
        BY <2>2, <4>1, <4>2, Zenon
    <3>3. sending' # NoReport => Fits(info', task'[sending'.task], sending'.sub, sending'.state)
      BY <1>3, ReportFacts, Zenon DEF ReportInv
    <3>4. \A q \in Tasks : \A i \in 1..Len(got'[q]) : Fits(info', task'[q], got'[q][i][1],
            got'[q][i][2])
      BY <1>3, Zenon DEF ReportInv
    <3> QED
      BY <3>2, <3>3, <3>4, Zenon DEF ReportInv
  <2>4. OrderInv'
    <3>1. \A i \in 1..Len(queue) : queue[i].task = t => Before(queue[i].state, s)
      BY <1>4, Zenon DEF ReportInv
    <3>2. sending # NoReport /\ sending.task = t => Before(sending.state, s)
      BY <1>4, Zenon DEF ReportInv
    <3>3. \A i \in 1..Len(got[t]) : Before(got[t][i][2], s)
      BY <1>4, Zenon DEF ReportInv
    <3>4. \A i, j \in 1..Len(queue') :
            i < j /\ queue'[i].task = queue'[j].task => Before(queue'[i].state, queue'[j].state)
      <4> SUFFICES ASSUME NEW i \in 1..Len(queue'), NEW j \in 1..Len(queue'), i < j,
                          queue'[i].task = queue'[j].task
                   PROVE  Before(queue'[i].state, queue'[j].state)
        OBVIOUS
      <4>1. i \in 1..Len(queue)
        BY <2>1, <2>2
      <4>2. CASE j \in 1..Len(queue)
        BY <2>2, <4>1, <4>2, Zenon DEF OrderInv
      <4>3. CASE j = Len(queue) + 1
        BY <1>1, <2>2, <3>1, <4>1, <4>3, Zenon
      <4> QED
        BY <2>2, <4>2, <4>3, Zenon
    <3>5. sending # NoReport =>
            \A i \in 1..Len(queue') :
                sending.task = queue'[i].task => Before(sending.state, queue'[i].state)
      BY <1>1, <2>2, <3>2, Zenon DEF OrderInv
    <3>6. \A j \in 1..Len(queue') : \A i \in 1..Len(got[queue'[j].task]) :
            Before(got[queue'[j].task][i][2], queue'[j].state)
      BY <1>1, <2>2, <3>3, Zenon DEF OrderInv
    <3> QED
      BY <3>4, <3>5, <3>6, Zenon DEF OrderInv, ReportsAreOrdered
  <2> QED
    BY <2>2, <2>3, <2>4, Zenon
<1> QED
  BY <1>5, <1>6, Zenon

(* The end of a task that was on its way or heard stays so; the end of t   *)
(* is queued for the subscriber that stayed.                               *)
LEMMA EndStep ==
    ASSUME NEW t \in Tasks, NEW s \in States, NEW n \in Nat, TypeInv, EndInv,
           task'[t].st = s, \A q \in Tasks \ {t} : task'[q] = task[q],
           UNCHANGED <<info, active, sending, got>>,
           \/ queue' = queue
           \/ Sends(n, t, s),
           (/\ s \in Terminal /\ task'[t].first \in active
            /\ info[task'[t].first].user = task'[t].user)
           => n = task'[t].first /\ Sends(n, t, s)
    PROVE  EndInv'
<1> DEFINE e == [sub |-> n, task |-> t, state |-> s]
<1>1. e \in Report
  BY DEF Report
<1>2. queue \in Seq(Report) /\ Len(queue) \in Nat
  BY DEF TypeInv
<1>3. Sends(n, t, s) =>
        /\ 1..Len(queue') = 1..Len(queue) \cup {Len(queue) + 1}
        /\ \A i \in 1..Len(queue) : queue'[i] = queue[i]
        /\ queue'[Len(queue) + 1] = e
  <2>1. Sends(n, t, s) => queue' = Append(queue, e)
    BY DEF Sends, Submit
  <2> HIDE DEF e
  <2> QED
    BY <1>1, <1>2, <2>1
<1>4. \A i \in 1..Len(queue) : i \in 1..Len(queue') /\ queue'[i] = queue[i]
  BY <1>3, Zenon
<1>5. ASSUME NEW q \in Tasks, task'[q].st \in Terminal, task'[q].first \in active',
             info'[task'[q].first].user = task'[q].user
      PROVE  \/ \E i \in 1..Len(queue') : queue'[i] = EndReport(q)'
             \/ sending' = EndReport(q)'
             \/ \E i \in 1..Len(got'[q]) : got'[q][i] = <<task'[q].first, task'[q].st>>
  <2>1. CASE q = t
    <3>1. n = task'[t].first /\ Sends(n, t, s)
      BY <1>5, <2>1, Zenon
    <3>2. EndReport(q)' = e
      BY <2>1, <3>1 DEF EndReport
    <3>3. Len(queue) + 1 \in 1..Len(queue') /\ queue'[Len(queue) + 1] = e
      BY <1>3, <3>1, Zenon
    <3> QED
      BY <3>2, <3>3, Zenon
  <2>2. CASE q # t
    <3>1. task'[q] = task[q] /\ EndReport(q)' = EndReport(q)
      BY <2>2 DEF EndReport
    <3>2. \/ \E i \in 1..Len(queue) : queue[i] = EndReport(q)
          \/ sending = EndReport(q)
          \/ \E i \in 1..Len(got[q]) : got[q][i] = <<task[q].first, task[q].st>>
      BY <1>5, <3>1, Zenon DEF EndInv
    <3> QED
      BY <1>4, <3>1, <3>2, Zenon
  <2> QED
    BY <2>1, <2>2, Zenon
<1> QED
  BY <1>5, Zenon DEF EndInv

(* What OnTaskProgress does to the queue.                                  *)
LEMMA ProgressFacts ==
    ASSUME TypeInv, SubInv, NEW t \in Tasks, NEW u, NEW s, NEW k \in Keys,
           OnTaskProgress(t, u, s, k)
    PROVE  /\ sub[k] \in Nat
           /\ \/ queue' = queue
              \/ /\ Sends(sub[k], t, s)
                 /\ sub[k] \in Numbers /\ info[sub[k]].user = u
           /\ (s \in Terminal /\ sub[k] # 0 /\ info[sub[k]].user = u)
              => Sends(sub[k], t, s)
<1>1. sub[k] \in Nat /\ (sub[k] # 0 => sub[k] \in Numbers)
  BY DEF SubInv, Numbers
<1> QED
  BY <1>1, Zenon DEF OnTaskProgress, Routed, Sends, Throttled

(* A subscriber that is active is the one its key has.                     *)
LEMMA ActiveFacts ==
    ASSUME SubInv, NEW n \in active
    PROVE  n # 0 /\ n \in Numbers /\ info[n].key \in Keys /\ sub[info[n].key] = n
BY Zenon DEF SubInv

LEMMA TaskFacts ==
    ASSUME TypeInv, NEW t \in Tasks, NEW w, task' = [task EXCEPT ![t] = w],
           w = [f \in TaskFields |-> w[f]]
    PROVE  /\ task' = [q \in Tasks |-> task'[q]] /\ task'[t] = w
           /\ \A q \in Tasks \ {t} : task'[q] = task[q]
           /\ \A q \in Tasks : task'[q] = [f \in TaskFields |-> task'[q][f]]
<1>1. task'[t] = w /\ \A q \in Tasks \ {t} : task'[q] = task[q]
  BY DEF TypeInv
<1>2. task' = [q \in Tasks |-> task'[q]]
  BY DEF TypeInv
<1>3. \A q \in Tasks \ {t} : task'[q] = [f \in TaskFields |-> task'[q][f]]
  BY <1>1, Zenon DEF TypeInv
<1> QED
  BY <1>1, <1>2, <1>3, Zenon

-----------------------------------------------------------------------------
(* Task t becomes w, in state s, and reports it under key k.               *)
LEMMA TaskMove ==
    ASSUME ProgressInv, NEW t \in Tasks, NEW s \in States, NEW k \in Keys, NEW w,
           w = [f \in TaskFields |-> w[f]], w.st = s, w.owner = k, s # None,
           task' = [task EXCEPT ![t] = w], OnTaskProgress(t, w.user, s, k),
           task[t].st # None => Before(task[t].st, s) /\ w.user = task[t].user,
           w.first = sub[k] \/ (w.first = task[t].first /\ task[t].owner = k),
           UNCHANGED <<sub, info, active, dead, notice, sending, got>>
    PROVE  ProgressInv'
<1> USE DEF ProgressInv
<1>1. /\ task' = [q \in Tasks |-> task'[q]] /\ task'[t] = w
      /\ \A q \in Tasks \ {t} : task'[q] = task[q]
      /\ \A q \in Tasks : task'[q] = [f \in TaskFields |-> task'[q][f]]
  BY TaskFacts, Zenon
<1>2. /\ sub[k] \in Nat
      /\ \/ queue' = queue
         \/ Sends(sub[k], t, s) /\ sub[k] \in Numbers /\ info[sub[k]].user = w.user
      /\ (s \in Terminal /\ sub[k] # 0 /\ info[sub[k]].user = w.user) => Sends(sub[k], t, s)
  BY ProgressFacts, Zenon
<1>3. \/ queue' = queue
      \/ /\ Sends(sub[k], t, s)
         /\ sub[k] \in Numbers /\ info[sub[k]].user = task'[t].user
  BY <1>1, <1>2, Zenon
<1>5. task'[t].st = s
  BY <1>1
<1>6. task[t].st # None => Before(task[t].st, s) /\ task'[t].user = task[t].user
  BY <1>1
<1>7. UNCHANGED <<info, sending, got>> /\ UNCHANGED <<info, active, sending, got>>
  OBVIOUS
<1>8. queue' \in Seq(Report) /\ ReportInv' /\ OrderInv'
  BY <1>1, <1>2, <1>3, <1>5, <1>6, <1>7, TaskStep
<1>9. EndInv'
  <2>1. (/\ s \in Terminal /\ task'[t].first \in active
         /\ info[task'[t].first].user = task'[t].user)
        => /\ sub[k] = task'[t].first
           /\ Sends(sub[k], t, s)
    <3>1. w.first \in active => w.first # 0 /\ sub[info[w.first].key] = w.first
      BY ActiveFacts, Zenon
    <3>2. w.first \in active => sub[k] = w.first
      BY <3>1, Zenon DEF OwnerInv
    <3> QED
      BY <1>1, <1>2, <3>1, <3>2, Zenon
  <2>2. \/ queue' = queue
        \/ Sends(sub[k], t, s)
    BY <1>3, Zenon
  <2> QED
    BY <1>1, <1>2, <1>5, <1>7, <2>1, <2>2, EndStep, Zenon
<1>10. OwnerInv'
  <2>1. w.first # 0 => w.first \in Numbers /\ info[w.first].key = k
    BY Zenon DEF OwnerInv, SubInv
  <2>2. Numbers' = Numbers
    BY DEF Numbers
  <2> QED
    BY <1>1, <2>1, <2>2, Zenon DEF OwnerInv
<1>11. TypeInv'
  BY <1>1, <1>8, Zenon DEF TypeInv
<1>12. SubInv'
  BY DEF SubInv, Numbers
<1> QED
  BY <1>8, <1>9, <1>10, <1>11, <1>12, Zenon

LEMMA CreateTaskStep ==
    ASSUME ProgressInv, NEW t \in Tasks, NEW u \in Users, NEW k \in Keys, CreateTask(t, u, k)
    PROVE  ProgressInv'
<1> DEFINE w == [st |-> "PENDING", user |-> u, owner |-> k, first |-> sub[k], reports |-> 0]
<1>1. /\ w = [f \in TaskFields |-> w[f]] /\ w.st = "PENDING" /\ w.user = u
      /\ w.owner = k /\ w.first = sub[k]
  BY DEF TaskFields
<1>2. /\ task[t].st = None /\ task' = [task EXCEPT ![t] = w] /\ OnTaskProgress(t, u, "PENDING", k)
      /\ UNCHANGED <<sub, info, active, dead, notice, sending, got>>
  BY DEF CreateTask
<1> HIDE DEF w
<1>3. "PENDING" # None /\ "PENDING" \in States
  BY DEF None, States
<1> QED
  BY <1>1, <1>2, <1>3, TaskMove, Zenon

LEMMA TaskReportsStep ==
    ASSUME ProgressInv, NEW t \in Tasks, NEW s \in {"IN_PROGRESS", "COMPLETED"}, TaskReports(t, s)
    PROVE  ProgressInv'
<1> DEFINE w == [task[t] EXCEPT !.st = s, !.reports = @ + 1]
           k == task[t].owner
<1>1. task[t] = [f \in TaskFields |-> task[t][f]]
  BY DEF ProgressInv, TypeInv
<1>2. /\ w = [f \in TaskFields |-> w[f]] /\ w.st = s /\ w.user = task[t].user
      /\ w.owner = k /\ w.first = task[t].first
  BY <1>1, Zenon DEF TaskFields
<1>3. task' = [task EXCEPT ![t] = w]
  BY Zenon DEF TaskReports
<1> HIDE DEF w
<1>4. /\ task[t].st # None /\ Before(task[t].st, s) /\ s # None /\ s \in States
  BY BeforeFacts DEF TaskReports, None, States, Terminal
<1>5. k \in Keys
  BY <1>4, Zenon DEF ProgressInv, OwnerInv
<1>6. /\ OnTaskProgress(t, w.user, s, k)
      /\ UNCHANGED <<sub, info, active, dead, notice, sending, got>>
  BY <1>2 DEF TaskReports
<1> QED
  BY <1>2, <1>3, <1>4, <1>5, <1>6, TaskMove, Zenon

LEMMA TaskCancelledStep ==
    ASSUME ProgressInv, NEW t \in Tasks, NEW k \in Keys, TaskCancelled(t, k)
    PROVE  ProgressInv'
<1> DEFINE n == IF k = task[t].owner THEN task[t].first ELSE sub[k]
           w == [task[t] EXCEPT !.st = "CANCELLED", !.owner = k, !.first = n]
<1>1. task[t] = [f \in TaskFields |-> task[t][f]]
  BY DEF ProgressInv, TypeInv
<1>2. task' = [task EXCEPT ![t] = w]
  BY Zenon DEF TaskCancelled
<1>3. n = sub[k] \/ (n = task[t].first /\ task[t].owner = k)
  OBVIOUS
<1> HIDE DEF n
<1>4. /\ w = [f \in TaskFields |-> w[f]] /\ w.st = "CANCELLED" /\ w.user = task[t].user
      /\ w.owner = k /\ w.first = n
  BY <1>1, Zenon DEF TaskFields
<1> HIDE DEF w
<1>5. Before(task[t].st, "CANCELLED") /\ "CANCELLED" # None /\ "CANCELLED" \in States
  BY BeforeFacts DEF TaskCancelled, None, States, Terminal
<1>6. /\ OnTaskProgress(t, w.user, "CANCELLED", k)
      /\ UNCHANGED <<sub, info, active, dead, notice, sending, got>>
  BY <1>4 DEF TaskCancelled
<1> QED
  BY <1>2, <1>3, <1>4, <1>5, <1>6, TaskMove, Zenon

-----------------------------------------------------------------------------
(* Subscribers leave.                                                      *)
LEMMA DropStep ==
    ASSUME ProgressInv, NEW S, Drop(S), UNCHANGED <<info, dead, queue, sending, task, got>>,
           notice' \subseteq notice
    PROVE  ProgressInv'
<1>1. sub' = [k \in Keys |-> sub'[k]] /\ \A k \in Keys : sub'[k] \in {0, sub[k]}
  BY DEF Drop
<1>2. active' = {sub'[k] : k \in Keys} \ {0}
  BY DEF Drop, ProgressInv, SubInv
<1>3. SubInv'
  BY <1>1, <1>2 DEF ProgressInv, SubInv, Numbers
<1>4. TypeInv'
  BY <1>1, Zenon DEF ProgressInv, TypeInv
<1>5. /\ Numbers \subseteq Numbers' /\ (\A n \in Numbers : info'[n] = info[n])
      /\ 0 \notin active'
      /\ \A n \in active' : n \in active \/ n \notin Numbers
  BY <1>2 DEF Drop, Numbers
<1> QED
  BY <1>3, <1>4, <1>5, RegistryStep, Zenon DEF ProgressInv

LEMMA RegisterStep ==
    ASSUME ProgressInv, NEW k \in Keys, NEW u \in Users, NEW o \in Objects, Register(k, u, o)
    PROVE  ProgressInv'
<1> DEFINE n == Len(info')
<1>1. /\ info' \in Seq([key : Keys, user : Users, obj : Objects])
      /\ Numbers' = Numbers \cup {n} /\ n \notin Numbers /\ n # 0
      /\ \A m \in Numbers : info'[m] = info[m]
      /\ info'[n] = [key |-> k, user |-> u, obj |-> o]
  BY InfoGrows, Zenon DEF ProgressInv
<1>2. /\ sub[k] = 0 /\ sub' = [sub EXCEPT ![k] = n] /\ active' = active \cup {n}
      /\ UNCHANGED <<dead, notice, queue, sending, task, got>>
  BY Zenon DEF Register
<1> HIDE DEF n
<1>3. sub' = [j \in Keys |-> sub'[j]] /\ sub'[k] = n /\ \A j \in Keys \ {k} : sub'[j] = sub[j]
  BY <1>2 DEF ProgressInv, TypeInv
<1>4. info'[n].key = k
  BY <1>1
<1>5. active' = {sub'[j] : j \in Keys} \ {0}
  BY <1>1, <1>2, <1>3 DEF ProgressInv, SubInv
<1>6. SubInv'
  BY <1>1, <1>2, <1>3, <1>4, <1>5, Zenon DEF ProgressInv, SubInv
<1>7. UNCHANGED <<queue, sending, task, got>> /\ 0 \notin active'
  BY <1>2, <1>5, Zenon
<1>8. TypeInv'
  BY <1>1, <1>3, <1>7, Zenon DEF ProgressInv, TypeInv
<1>9. /\ Numbers \subseteq Numbers' /\ (\A m \in Numbers : info'[m] = info[m])
      /\ \A m \in active' : m \in active \/ m \notin Numbers
  BY <1>1, <1>2, Zenon
<1> QED
  BY <1>6, <1>7, <1>8, <1>9, RegistryStep, Zenon DEF ProgressInv

LEMMA UnregisterStep ==
    ASSUME ProgressInv, NEW k \in Keys, Unregister(k)
    PROVE  ProgressInv'
<1>1. Drop({sub[k]}) /\ UNCHANGED <<info, dead, queue, sending, task, got>> /\
        notice' \subseteq notice
  BY DEF Unregister
<1> QED
  BY <1>1, DropStep, Zenon

LEMMA OnRemoteDiedStep ==
    ASSUME ProgressInv, NEW w \in notice, OnRemoteDied(w)
    PROVE  ProgressInv'
<1>1. UNCHANGED <<info, dead, queue, sending, task, got>> /\ notice' \subseteq notice
  BY DEF OnRemoteDied
<1>2. CASE DiedSubscriber(w)
  <2>1. Drop({sub[w.key]})
    BY <1>2, Zenon DEF OnRemoteDied
  <2> QED
    BY <1>1, <2>1, DropStep, Zenon
<1>3. CASE ~DiedSubscriber(w)
  <2>1. UNCHANGED <<sub, active>>
    BY <1>3, Zenon DEF OnRemoteDied
  <2>2. sub' = [k \in Keys |-> IF sub[k] \in {} THEN 0 ELSE sub[k]] /\ active' = active \ {}
    BY <2>1 DEF ProgressInv, TypeInv
  <2>3. Drop({})
    BY <2>2, Zenon DEF Drop
  <2> QED
    BY <1>1, <2>3, DropStep, Zenon
<1> QED
  BY <1>2, <1>3, Zenon

(* Steps that touch neither subscribers nor reports.                       *)
LEMMA OtherStep ==
    ASSUME ProgressInv, UNCHANGED <<sub, info, active, queue, sending, task, got>>,
           \A w \in notice' : w.obj \in dead'
    PROVE  ProgressInv'
<1>1. SubInv'
  BY DEF ProgressInv, SubInv, Numbers
<1>2. TypeInv'
  BY Zenon DEF ProgressInv, TypeInv
<1>3. /\ Numbers \subseteq Numbers' /\ (\A n \in Numbers : info'[n] = info[n])
      /\ 0 \notin active'
      /\ \A n \in active' : n \in active \/ n \notin Numbers
  BY DEF Numbers, ProgressInv, SubInv
<1> QED
  BY <1>1, <1>2, <1>3, RegistryStep, Zenon DEF ProgressInv

LEMMA ClearStep ==
    ASSUME ProgressInv, Clear
    PROVE  ProgressInv'
<1>1. /\ UNCHANGED <<info, dead, queue, sending, task, got>> /\ notice' \subseteq notice
      /\ sub' = [k \in Keys |-> 0] /\ active' = {}
  BY DEF Clear, ClearAll
<1>2. \A k \in Keys : sub[k] \in active \cup {0}
  BY DEF ProgressInv, SubInv
<1>3. Drop(active \cup {0})
  BY <1>1, <1>2 DEF Drop
<1> QED
  BY <1>1, <1>3, DropStep, Zenon

-----------------------------------------------------------------------------
(* The worker of the queue.                                                *)
LEMMA CheckActiveStep ==
    ASSUME ProgressInv, CheckActive
    PROVE  ProgressInv'
<1> USE DEF ProgressInv
<1>1. /\ sending = NoReport /\ queue' = Tail(queue)
      /\ UNCHANGED <<sub, info, active, dead, notice, task, got>>
  BY DEF CheckActive
<1>2. /\ queue' \in Seq(Report) /\ queue[1] \in Report /\ 1 \in 1..Len(queue)
      /\ \A i \in 1..Len(queue') : i + 1 \in 1..Len(queue) /\ queue'[i] = queue[i + 1] /\ 1 < i + 1
      /\ \A i, j \in 1..Len(queue') : i < j => i + 1 < j + 1
      /\ \A j \in 1..Len(queue) : j = 1 \/ \E i \in 1..Len(queue') : j = i + 1
  <2>1. queue \in Seq(Report) /\ queue # << >>
    BY DEF CheckActive, TypeInv
  <2>2. /\ Tail(queue) \in Seq(Report) /\ Head(queue) = queue[1] /\ queue[1] \in Report
        /\ 1 \in 1..Len(queue)
        /\ \A i \in 1..Len(Tail(queue)) :
               i + 1 \in 1..Len(queue) /\ Tail(queue)[i] = queue[i + 1] /\ 1 < i + 1
        /\ \A i, j \in 1..Len(Tail(queue)) : i < j => i + 1 < j + 1
        /\ \A j \in 1..Len(queue) : j = 1 \/ \E i \in 1..Len(Tail(queue)) : j = i + 1
    BY <2>1, TailFacts, Zenon
  <2> QED
    BY <1>1, <2>2
<1>3. /\ sending' = queue[1] \/ sending' = NoReport
      /\ queue[1].sub \in active => sending' = queue[1]
  BY TailFacts, Zenon DEF CheckActive, TypeInv
<1>4. TypeInv'
  BY <1>1, <1>2, <1>3, Zenon DEF TypeInv
<1>5. SubInv' /\ OwnerInv'
  BY <1>1 DEF SubInv, OwnerInv, Numbers
<1>6. ReportInv'
  BY <1>1, <1>2, <1>3, Zenon DEF ReportInv
<1>7. OrderInv'
  <2>1. \A i, j \in 1..Len(queue') :
          i < j /\ queue'[i].task = queue'[j].task => Before(queue'[i].state, queue'[j].state)
    BY <1>2, Zenon DEF OrderInv
  <2>2. sending' # NoReport =>
          \A i \in 1..Len(queue') :
              sending'.task = queue'[i].task => Before(sending'.state, queue'[i].state)
    BY <1>2, <1>3, Zenon DEF OrderInv
  <2>3. \A j \in 1..Len(queue') : \A i \in 1..Len(got[queue'[j].task]) :
          Before(got[queue'[j].task][i][2], queue'[j].state)
    BY <1>2, Zenon DEF OrderInv
  <2>4. sending' # NoReport =>
          \A i \in 1..Len(got[sending'.task]) : Before(got[sending'.task][i][2], sending'.state)
    BY <1>2, <1>3, Zenon DEF OrderInv
  <2> QED
    BY <1>1, <2>1, <2>2, <2>3, <2>4, Zenon DEF OrderInv, ReportsAreOrdered
<1>8. EndInv'
  <2>1. ASSUME NEW t \in Tasks, task[t].st \in Terminal, task[t].first \in active,
               info[task[t].first].user = task[t].user
        PROVE  \/ \E i \in 1..Len(queue') : queue'[i] = EndReport(t)
               \/ sending' = EndReport(t)
               \/ \E i \in 1..Len(got[t]) : got[t][i] = <<task[t].first, task[t].st>>
    <3>1. EndReport(t).sub = task[t].first /\ task[t].first # 0
      BY <2>1 DEF EndReport, SubInv
    <3>2. sending # EndReport(t)
      BY <1>1, <3>1 DEF NoReport
    <3>3. CASE queue[1] = EndReport(t)
      BY <1>3, <2>1, <3>1, <3>3, Zenon
    <3>4. CASE queue[1] # EndReport(t)
      <4>1. \A i \in 1..Len(queue) : queue[i] = EndReport(t) =>
              \E j \in 1..Len(queue') : queue'[j] = EndReport(t)
        <5> SUFFICES ASSUME NEW i \in 1..Len(queue), queue[i] = EndReport(t)
                     PROVE  \E j \in 1..Len(queue') : queue'[j] = EndReport(t)
          OBVIOUS
        <5>1. i # 1
          BY <3>4
        <5>2. PICK j \in 1..Len(queue') : i = j + 1
          BY <1>2, <5>1, Zenon
        <5>3. queue'[j] = queue[i]
          BY <1>2, <5>2
        <5> QED
          BY <5>2, <5>3, Zenon
      <4> QED
        BY <2>1, <3>2, <4>1, Zenon DEF EndInv
    <3> QED
      BY <3>3, <3>4, Zenon
  <2>2. \A t : EndReport(t)' = EndReport(t)
    BY <1>1 DEF EndReport
  <2> QED
    BY <1>1, <2>1, <2>2, Zenon DEF EndInv
<1> QED
  BY <1>4, <1>5, <1>6, <1>7, <1>8, Zenon

LEMMA OnProgressStep ==
    ASSUME ProgressInv, OnProgress
    PROVE  ProgressInv'
<1> DEFINE t == sending.task
           e == <<sending.sub, sending.state>>
<1> USE DEF ProgressInv
<1>1. /\ sending # NoReport /\ sending' = NoReport
      /\ got' = [got EXCEPT ![t] = Append(got[t], e)]
      /\ UNCHANGED <<sub, info, active, dead, notice, queue, task>>
  BY DEF OnProgress
<1>2. sending \in Report /\ t \in Tasks
  BY <1>1, ReportFacts, Zenon
<1>3. e \in Nat \X States /\ e[1] = sending.sub /\ e[2] = sending.state
  BY <1>2 DEF Report
<1> HIDE DEF e
<1>4. /\ got' \in [Tasks -> Seq(Nat \X States)]
      /\ got'[t] = Append(got[t], e) /\ \A q \in Tasks \ {t} : got'[q] = got[q]
  BY <1>1, <1>2, <1>3 DEF TypeInv
<1>5. got[t] \in Seq(Nat \X States) /\ Len(got[t]) \in Nat
  BY <1>2 DEF TypeInv
<1> HIDE DEF t
<1>6. /\ 1..Len(got'[t]) = 1..Len(got[t]) \cup {Len(got[t]) + 1}
      /\ \A i \in 1..Len(got[t]) : got'[t][i] = got[t][i] /\ i < Len(got[t]) + 1
      /\ got'[t][Len(got[t]) + 1] = e
      /\ \A i, j \in 1..Len(got'[t]) : i < j => i \in 1..Len(got[t])
  BY <1>3, <1>4, <1>5
<1>7. \A q \in Tasks : \A i \in 1..Len(got[q]) : i \in 1..Len(got'[q]) /\ got'[q][i] = got[q][i]
  BY <1>4, <1>6, Zenon
<1>8. \A q \in Tasks : \A i \in 1..Len(got'[q]) :
        (i \in 1..Len(got[q]) /\ got'[q][i] = got[q][i]) \/ (q = t /\ got'[q][i] = e)
  BY <1>4, <1>6, Zenon
<1>9. TypeInv' /\ SubInv' /\ OwnerInv'
  <2>1. TypeInv'
    BY <1>1, <1>4, Zenon DEF TypeInv
  <2>2. SubInv' /\ OwnerInv'
    BY <1>1 DEF SubInv, OwnerInv, Numbers
  <2> QED
    BY <2>1, <2>2
<1>10. ReportInv'
  <2>1. Fits(info, task[t], e[1], e[2])
    BY <1>1, <1>3, Zenon DEF ReportInv, t
  <2> QED
    BY <1>1, <1>8, <2>1, Zenon DEF ReportInv
<1>11. OrderInv'
  <2>1. \A j \in 1..Len(queue) : t = queue[j].task => Before(e[2], queue[j].state)
    BY <1>1, <1>3, Zenon DEF OrderInv, t
  <2>2. \A j \in 1..Len(queue) : \A i \in 1..Len(got'[queue[j].task]) :
          Before(got'[queue[j].task][i][2], queue[j].state)
    BY <1>8, <2>1, ReportFacts, Zenon DEF OrderInv
  <2>3. \A i \in 1..Len(got[t]) : Before(got[t][i][2], e[2])
    BY <1>1, <1>3, Zenon DEF OrderInv, t
  <2>4. ASSUME NEW q \in Tasks, NEW i \in 1..Len(got'[q]), NEW j \in 1..Len(got'[q]), i < j
        PROVE  Before(got'[q][i][2], got'[q][j][2])
    <3>1. \A m, n \in 1..Len(got[q]) : m < n => Before(got[q][m][2], got[q][n][2])
      BY DEF OrderInv, ReportsAreOrdered, Before
    <3>2. CASE q # t
      BY <1>4, <2>4, <3>1, <3>2, Zenon
    <3>3. CASE q = t
      BY <1>6, <1>8, <2>3, <2>4, <3>1, <3>3, Zenon
    <3> QED
      BY <3>2, <3>3, Zenon
  <2>5. ReportsAreOrdered'
    BY <2>4 DEF ReportsAreOrdered, Before
  <2> QED
    BY <1>1, <2>2, <2>5, Zenon DEF OrderInv
<1>12. EndInv'
  <2>1. \A q : EndReport(q)' = EndReport(q)
    BY <1>1 DEF EndReport
  <2>2. ASSUME NEW q \in Tasks, sending = EndReport(q)
        PROVE  \E i \in 1..Len(got'[q]) : got'[q][i] = <<task[q].first, task[q].st>>
    <3>1. q = t /\ e = <<task[q].first, task[q].st>>
      BY <2>2 DEF EndReport, t, e
    <3> QED
      BY <1>6, <3>1, Zenon
  <2>3. ASSUME NEW q \in Tasks, task[q].st \in Terminal, task[q].first \in active,
               info[task[q].first].user = task[q].user
        PROVE  \/ \E i \in 1..Len(queue) : queue[i] = EndReport(q)
               \/ \E i \in 1..Len(got'[q]) : got'[q][i] = <<task[q].first, task[q].st>>
    <3>1. \/ \E i \in 1..Len(queue) : queue[i] = EndReport(q)
          \/ sending = EndReport(q)
          \/ \E i \in 1..Len(got[q]) : got[q][i] = <<task[q].first, task[q].st>>
      BY <2>3, Zenon DEF EndInv
    <3> QED
      BY <1>7, <2>2, <3>1, Zenon
  <2>4. UNCHANGED <<info, active, queue, task>>
    BY <1>1
  <2> QED
    BY <2>1, <2>3, <2>4, Zenon DEF EndInv
<1> QED
  BY <1>9, <1>10, <1>11, <1>12, Zenon

-----------------------------------------------------------------------------
(* The inductive invariant of the progress manager holds in every state.   *)
THEOREM ProgressInvariance == Spec => []ProgressInv
<1>1. Init => ProgressInv
  <2> SUFFICES ASSUME Init
               PROVE  ProgressInv
    OBVIOUS
  <2>1. TypeInv
    BY DEF Init, TypeInv, TaskFields
  <2>2. SubInv /\ OwnerInv
    BY DEF Init, SubInv, OwnerInv
  <2>3. ReportInv /\ OrderInv
    BY DEF Init, ReportInv, OrderInv, ReportsAreOrdered
  <2>4. EndInv
    BY DEF Init, EndInv, Terminal, None
  <2> QED
    BY <2>1, <2>2, <2>3, <2>4 DEF ProgressInv
<1>2. ProgressInv /\ [Next]_vars => ProgressInv'
  <2> SUFFICES ASSUME ProgressInv, [Next]_vars
               PROVE  ProgressInv'
    OBVIOUS
  <2>1. ASSUME NEW w \in watch, RemoveDeathRecipient(w) PROVE ProgressInv'
    BY <2>1, OtherStep, Zenon DEF RemoveDeathRecipient, ProgressInv, SubInv
  <2>2. ASSUME NEW o \in Objects, Die(o) PROVE ProgressInv'
    <3>1. UNCHANGED <<sub, info, active, queue, sending, task, got>>
      BY <2>2 DEF Die
    <3>2. \A w \in notice' : w.obj \in dead'
      BY <2>2 DEF Die, ProgressInv, SubInv
    <3> QED
      BY <3>1, <3>2, OtherStep, Zenon
  <2>3. CASE Elapse
    BY <2>3, OtherStep, Zenon DEF Elapse, ProgressInv, SubInv
  <2>4. CASE UNCHANGED vars
    BY <2>4, OtherStep, Zenon DEF vars, ProgressInv, SubInv
  <2> QED
    BY <2>1, <2>2, <2>3, <2>4, RegisterStep, UnregisterStep, OnRemoteDiedStep, CreateTaskStep,
       TaskReportsStep, TaskCancelledStep, CheckActiveStep, OnProgressStep, ClearStep, Zenon
       DEF Next
<1> QED
  BY <1>1, <1>2, PTL DEF Spec

(* An accessor hears the states of a task in order, and nothing after its  *)
(* end: the reports of OnTaskProgress pass the queue and its worker        *)
(* unchanged in order.                                                     *)
THEOREM ReportsAreOrderedThm == Spec => []ReportsAreOrdered
<1>1. ProgressInv => ReportsAreOrdered
  BY DEF ProgressInv, OrderInv
<1> QED
  BY <1>1, ProgressInvariance, PTL

(* A report goes to a subscriber of the task's user only.                  *)
THEOREM ReportsStayWithTheUserThm == Spec => []ReportsStayWithTheUser
<1>1. ProgressInv => ReportsStayWithTheUser
  BY DEF ProgressInv, ReportInv, Fits, ReportsStayWithTheUser
<1> QED
  BY <1>1, ProgressInvariance, PTL

(* A subscriber that stayed registered has heard of the end of the task    *)
(* once the queue is empty: the throttle never drops the last report.      *)
THEOREM EndIsReportedThm == Spec => []EndIsReported
<1>1. ProgressInv => EndIsReported
  <2> SUFFICES ASSUME ProgressInv, NEW t \in Tasks, task[t].st \in Terminal,
                      task[t].first \in active, info[task[t].first].user = task[t].user,
                      queue = << >>, sending = NoReport
               PROVE  \E i \in 1..Len(got[t]) : got[t][i] = <<task[t].first, task[t].st>>
    BY DEF EndIsReported
  <2>1. 1..Len(queue) = {}
    OBVIOUS
  <2>2. sending # EndReport(t)
    BY DEF ProgressInv, SubInv, NoReport, EndReport
  <2> QED
    BY <2>1, <2>2, Zenon DEF ProgressInv, EndInv
<1> QED
  BY <1>1, ProgressInvariance, PTL

(* All that an accessor is told: in order, to the end, and of its user.    *)
THEOREM ReportsAreRightThm == Spec => []ReportsAreRight
BY ReportsAreOrderedThm, EndIsReportedThm, ReportsStayWithTheUserThm, PTL DEF ReportsAreRight

(* A death notice takes away a registration of an object that died, never  *)
(* a later one under the same key: OnRemoteDied compares the objects.      *)
THEOREM LiveSubscribersThm == Spec => [][LiveSubscribersSurviveDeathNotices]_vars
<1>1. ProgressInv /\ [Next]_vars => [LiveSubscribersSurviveDeathNotices]_vars
  <2> SUFFICES ASSUME ProgressInv, Next, NEW k \in Keys, sub[k] # 0, sub'[k] # sub[k],
                      notice' # notice
               PROVE  info[sub[k]].obj \in dead
    BY DEF LiveSubscribersSurviveDeathNotices
  <2>1. PICK w \in notice : OnRemoteDied(w)
    BY Zenon DEF Next, Register, Unregister, RemoveDeathRecipient, Die, CreateTask, TaskReports,
       TaskCancelled, Elapse, CheckActive, OnProgress, Clear
  <2>2. w.obj \in dead
    BY <2>1, Zenon DEF ProgressInv, SubInv
  <2>3. DiedSubscriber(w) /\ sub[k] = sub[w.key]
    BY <2>1 DEF OnRemoteDied, Drop
  <2> QED
    BY <2>2, <2>3 DEF DiedSubscriber
<1> QED
  BY <1>1, ProgressInvariance, PTL DEF Spec
=============================================================================
