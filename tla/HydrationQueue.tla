--------------------------- MODULE HydrationQueue ---------------------------
(***************************************************************************)
(* What PlaceholderTaskManager promises to the callers of StartHydration:  *)
(* a queue in which a task is submitted, started and ended in one step     *)
(* each, no file has two outstanding tasks, and the numbers of waiting and *)
(* of active tasks stay within their limits at every moment.               *)
(***************************************************************************)
EXTENDS Integers, FiniteSets

CONSTANTS
  Keys, Files, Apps, AppOf,
  MaxActivePerApp, MaxActiveGlobal, MaxPendingPerApp, MaxPendingGlobal

VARIABLES state, file

vars == <<state, file>>

With(s) == {k \in Keys : state[k] = s}
OfApp(S, a) == {k \in S : AppOf[file[k]] = a}
Ended == {"COMPLETED", "CANCELLED"}

Init ==
  /\ state = [k \in Keys |-> "ABSENT"]
  /\ file \in [Keys -> Files]

Submit(k, f) ==
  /\ state[k] = "ABSENT"
  /\ \A l \in With("PENDING") \cup With("IN_PROGRESS") : file[l] # f
  /\ Cardinality(OfApp(With("PENDING"), AppOf[f])) < MaxPendingPerApp
  /\ Cardinality(With("PENDING")) < MaxPendingGlobal
  /\ state' = [state EXCEPT ![k] = "PENDING"]
  /\ file' = [file EXCEPT ![k] = f]

Start(k) ==
  /\ state[k] = "PENDING"
  /\ Cardinality(OfApp(With("IN_PROGRESS"), AppOf[file[k]])) < MaxActivePerApp
  /\ Cardinality(With("IN_PROGRESS")) < MaxActiveGlobal
  /\ state' = [state EXCEPT ![k] = "IN_PROGRESS"]
  /\ UNCHANGED file

Complete(k) ==
  /\ state[k] = "IN_PROGRESS"
  /\ state' = [state EXCEPT ![k] = "COMPLETED"]
  /\ UNCHANGED file

Cancel(k) ==
  /\ state[k] \in {"PENDING", "IN_PROGRESS"}
  /\ state' = [state EXCEPT ![k] = "CANCELLED"]
  /\ UNCHANGED file

Next ==
  \E k \in Keys :
    \/ \E f \in Files : Submit(k, f)
    \/ Start(k)
    \/ Complete(k)
    \/ Cancel(k)

Spec == Init /\ [][Next]_vars

=============================================================================
