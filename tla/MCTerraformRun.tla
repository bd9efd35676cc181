--------------------------- MODULE MCTerraformRun ---------------------------
(***************************************************************************)
(* Instances of TerraformRun for TLC.                                      *)
(***************************************************************************)
EXTENDS TerraformRun
=============================================================================
