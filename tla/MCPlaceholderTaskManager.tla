--------------------- MODULE MCPlaceholderTaskManager ---------------------
(***************************************************************************)
(* Small instances of PlaceholderTaskManager.                              *)
(***************************************************************************)
EXTENDS PlaceholderTaskManager, TLC

CONSTANTS f1, f2, f3, a1, a2

ClientSymmetry == Permutations(Clients)

TwoFiles == f1 :> a1 @@ f2 :> a1
TwoAndOne == f1 :> a1 @@ f2 :> a1 @@ f3 :> a2
OneFile == f1 :> a1
=============================================================================
