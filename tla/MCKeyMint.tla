----------------------------- MODULE MCKeyMint ------------------------------
(***************************************************************************)
(* Instances of KeyMint for TLC.                                           *)
(***************************************************************************)
EXTENDS KeyMint
=============================================================================
