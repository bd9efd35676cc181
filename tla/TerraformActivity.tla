-------------------------- MODULE TerraformActivity --------------------------
(***************************************************************************)
(* What one TerraformApply activity promises, without its attempts,        *)
(* processes, heartbeats and locks: while it is going on, and after it has *)
(* failed, the namespace may become as wanted, the state file may catch up *)
(* with the Cloud, and the worker gets one identity; it succeeds only when *)
(* all three are there, and from then on nothing is written any more.      *)
(* This is what an attempt is in module Environments (TerraformApply and   *)
(* TerraformApplyFails).  TerraformRun implements it where terraform locks *)
(* its state file (TerraformRun!Implements).                               *)
(***************************************************************************)
CONSTANTS Identity, None

VARIABLES
  outcome,   \* of the activity
  cloud,     \* the namespace: "absent", not as wanted ("old"), or "want"
  state,     \* the namespace as the state file has it
  identity,  \* the worker identity the state file names, if it exists
  result     \* the identity the activity returned

vars == <<outcome, cloud, state, identity, result>>

Init ==
  /\ outcome = "running"
  /\ cloud \in {"absent", "old", "want"}
  /\ state \in {"absent", "old", "want"}
  /\ identity \in Identity \cup {None} /\ result = None

\* The identity of a worker is chosen once.
Named == identity' = identity \/ (identity = None /\ identity' \in Identity)

\* An attempt writes the Cloud, the state file, or both; it may have been given up.
Write ==
  /\ outcome # "ok"
  /\ cloud' \in {cloud, "want"}
  /\ state' \in {state, cloud'}
  /\ Named
  /\ UNCHANGED <<outcome, result>>

\* The last attempt fails, with what it had done in the state file.
GiveUp ==
  /\ outcome = "running"
  /\ outcome' = "failed"
  /\ state' \in {state, cloud}
  /\ Named
  /\ UNCHANGED <<cloud, result>>

Succeed ==
  /\ outcome = "running"
  /\ cloud = "want" /\ state = "want" /\ identity # None
  /\ outcome' = "ok" /\ result' = identity
  /\ UNCHANGED <<cloud, state, identity>>

Next == Write \/ GiveUp \/ Succeed

Spec == Init /\ [][Next]_vars
=============================================================================
