---------------------------- MODULE MCReconciler ----------------------------
(***************************************************************************)
(* Instances of Reconciler for TLC: the two environments a spec may list   *)
(* (prod sorts before staging) and two retention values.                   *)
(***************************************************************************)
EXTENDS Reconciler

Prod == 1
Staging == 2
MCEnv == {Prod, Staging}
=============================================================================
