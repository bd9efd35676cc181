--------------------------- MODULE MCControlPlane ---------------------------
(***************************************************************************)
(* Instances of ControlPlane for TLC, with the environments of             *)
(* MCReconciler and both drivers.                                          *)
(***************************************************************************)
EXTENDS ControlPlane

Prod == 1
Staging == 2
MCEnv == {Prod, Staging}
=============================================================================
