-------------------------- MODULE NamespaceEntity ---------------------------
(***************************************************************************)
(* What the entity workflow of one spec promises, without its signals,     *)
(* children, futures, retries, prunes and runs: a namespace is written     *)
(* only on behalf of the spec in force, and only in the direction that     *)
(* spec asks for.  Reconciler implements it (Reconciler!Implements).       *)
(***************************************************************************)
EXTENDS Naturals

CONSTANTS Env, Retention, Absent

VARIABLES
  active,    \* the entity exists
  spec,      \* the spec in force
  retiring,  \* it has been asked to destroy everything and stop
  cloud,     \* [Env -> Retention or Absent]
  edits      \* changes made by hand

vars == <<active, spec, retiring, cloud, edits>>

Specs == [envs : SUBSET Env \ {{}}, ret : Retention]

Init ==
  /\ ~active /\ ~retiring
  /\ spec \in Specs
  /\ cloud = [e \in Env |-> Absent]
  /\ edits = 0

\* The entity comes into being with a spec.
Start ==
  /\ ~active
  /\ active' = TRUE /\ retiring' = FALSE
  /\ spec' \in Specs
  /\ UNCHANGED <<cloud, edits>>

\* New intent.
Adopt ==
  /\ active /\ ~retiring
  /\ spec' \in Specs
  /\ UNCHANGED <<active, retiring, cloud, edits>>

Retire ==
  /\ active /\ ~retiring
  /\ retiring' = TRUE
  /\ UNCHANGED <<active, spec, cloud, edits>>

\* It ends only because it was asked to.
Stop ==
  /\ active /\ retiring
  /\ active' = FALSE
  /\ UNCHANGED <<spec, retiring, cloud, edits>>

\* A namespace is created or corrected for an environment the spec in force lists,
\* with the retention the spec in force asks for.
Provide(e) ==
  /\ active /\ ~retiring
  /\ e \in spec.envs
  /\ cloud' = [cloud EXCEPT ![e] = spec.ret]
  /\ UNCHANGED <<active, spec, retiring, edits>>

\* A namespace is deleted when the spec in force does not list it, or on the way out.
Remove(e) ==
  /\ active
  /\ retiring \/ e \notin spec.envs
  /\ cloud' = [cloud EXCEPT ![e] = Absent]
  /\ UNCHANGED <<active, spec, retiring, edits>>

\* Somebody else changes or deletes a namespace, and never makes one.
ByHand(e) ==
  /\ cloud[e] # Absent
  /\ edits' = edits + 1
  /\ \E r \in Retention \cup {Absent} : cloud' = [cloud EXCEPT ![e] = r]
  /\ UNCHANGED <<active, spec, retiring>>

Next ==
  \/ Start \/ Adopt \/ Retire \/ Stop
  \/ \E e \in Env : Provide(e) \/ Remove(e) \/ ByHand(e)

Spec == Init /\ [][Next]_vars
=============================================================================
