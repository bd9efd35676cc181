---------------------------- MODULE Environments ----------------------------
(***************************************************************************)
(* The environments of ONE logical namespace spec and the child workflows  *)
(* that touch them: internal/platform/workflow/environment.go, with the    *)
(* Terraform and key activities it schedules.                              *)
(*                                                                         *)
(* An environment has a namespace in the Temporal Cloud account, a         *)
(* Terraform state file, and a Vault path for the worker's key.  Two child *)
(* workflows write them: ns-<spec>-<env> (apply, then mint) and            *)
(* ns-<spec>-<env>-destroy.  A workflow id has at most one open execution, *)
(* so one variable per id is enough.                                       *)
(*                                                                         *)
(* Two parents start the apply child under the SAME id: the reconciler and *)
(* `tpctl apply` (constant Driver).  Each holds its own futures.           *)
(*                                                                         *)
(* Environments are numbered in the order of their names, because the code *)
(* sorts them ("prod" before "staging").                                   *)
(***************************************************************************)
EXTENDS Naturals

CONSTANTS
  Env,          \* environment names, as numbers in sorted order
  Retention,    \* the retention values a spec may ask for
  Absent,       \* no namespace in the Cloud / no resource in the state file
  Driver,       \* the parents that start apply children
  MaxFaults,    \* bound: activity attempts and drift checks that fail
  MaxEdits      \* bound: changes made by hand in the Cloud UI

ASSUME EnvAssumption == Env \subseteq Nat
ASSUME RetentionAssumption == Retention # {} /\ Absent \notin Retention
ASSUME DriverAssumption == Driver # {}
ASSUME FaultAssumption == MaxFaults \in Nat /\ MaxEdits \in Nat

VARIABLES
  cloud,    \* [Env -> Retention or Absent]: the namespace, as the Cloud has it
  state,    \* [Env -> Retention or Absent]: the namespace, as the state file has it
  cred,     \* [Env -> BOOLEAN]: Vault holds a key of the live worker identity
  job,      \* execution of ns-<spec>-<env>: "idle" (none open), "apply", "mint"
  want,     \* the retention in that execution's input
  owner,    \* the driver that started it
  future,   \* future[d][e]: what driver d's child future for e says
  erase,    \* execution of ns-<spec>-<env>-destroy, and its unread result
  faults,   \* failures so far
  edits     \* changes by hand so far

envVars == <<cloud, state, cred, job, want, owner, future, erase, faults, edits>>

Actual == Retention \cup {Absent}

EnvTypeOK ==
  /\ cloud \in [Env -> Actual]
  /\ state \in [Env -> Actual]
  /\ cred \in [Env -> BOOLEAN]
  /\ job \in [Env -> {"idle", "apply", "mint"}]
  /\ want \in [Env -> Retention]
  /\ owner \in [Env -> Driver]
  /\ future \in [Driver -> [Env -> {"none", "pending", "ok", "failed"}]]
  /\ erase \in [Env -> {"idle", "destroy", "ok", "failed"}]
  /\ faults \in 0..MaxFaults
  /\ edits \in 0..MaxEdits

\* Nothing has been provisioned yet.
EnvInit ==
  /\ cloud = [e \in Env |-> Absent]
  /\ state = [e \in Env |-> Absent]
  /\ cred = [e \in Env |-> FALSE]
  /\ job = [e \in Env |-> "idle"]
  /\ want = [e \in Env |-> CHOOSE r \in Retention : TRUE]
  /\ owner = [e \in Env |-> CHOOSE d \in Driver : TRUE]
  /\ future = [d \in Driver |-> [e \in Env |-> "none"]]
  /\ erase = [e \in Env |-> "idle"]
  /\ faults = 0
  /\ edits = 0

-----------------------------------------------------------------------------
(* Starting children.                                                      *)

\* Mutant of StartChildren: nothing refuses a second execution of an open id.
StartChildrenTwice(d, E, r) ==
  /\ job' = [e \in Env |-> IF e \in E THEN "apply" ELSE job[e]]
  /\ want' = [e \in Env |-> IF e \in E THEN r ELSE want[e]]
  /\ owner' = [e \in Env |-> IF e \in E THEN d ELSE owner[e]]
  /\ future' = [future EXCEPT ![d] = [e \in Env |-> IF e \in E THEN "pending" ELSE "none"]]

\* Mutant of StartChildren: a driver waits for a child it did not start.
StartChildrenAttach(d, E, r) ==
  LET fresh == {e \in E : job[e] = "idle"} IN
  /\ job' = [e \in Env |-> IF e \in fresh THEN "apply" ELSE job[e]]
  /\ want' = [e \in Env |-> IF e \in fresh THEN r ELSE want[e]]
  /\ owner' = [e \in Env |-> IF e \in fresh THEN d ELSE owner[e]]
  /\ future' = [future EXCEPT ![d] = [e \in Env |-> IF e \in E THEN "pending" ELSE "none"]]

\* Driver d starts one apply child per environment of E with retention r.
\* Where ns-<spec>-<env> is already open the start fails at once: "workflow
\* execution already started".
StartChildren(d, E, r) ==
  LET fresh == {e \in E : job[e] = "idle"} IN
  /\ job' = [e \in Env |-> IF e \in fresh THEN "apply" ELSE job[e]]
  /\ want' = [e \in Env |-> IF e \in fresh THEN r ELSE want[e]]
  /\ owner' = [e \in Env |-> IF e \in fresh THEN d ELSE owner[e]]
  /\ future' = [future EXCEPT ![d] =
                  [e \in Env |-> IF e \in fresh THEN "pending"
                                 ELSE IF e \in E THEN "failed" ELSE "none"]]

\* The apply child of e closes, and its parent's future resolves to res.
CloseChild(e, res) ==
  /\ job' = [job EXCEPT ![e] = "idle"]
  /\ future' = [future EXCEPT ![owner[e]][e] = res]

Fault == faults < MaxFaults /\ faults' = faults + 1

-----------------------------------------------------------------------------
(* EnvironmentWorkflow.                                                    *)

\* One successful attempt: an existing namespace is imported or already in the
\* state, a missing one is created, and the state file is written.
TerraformApply(e) ==
  /\ job[e] = "apply"
  /\ cloud' = [cloud EXCEPT ![e] = want[e]]
  /\ state' = [state EXCEPT ![e] = want[e]]
  /\ job' = [job EXCEPT ![e] = "mint"]
  /\ UNCHANGED <<cred, want, owner, future, erase, faults, edits>>

\* A failed attempt.  Terraform may have stopped before or after writing the
\* namespace, and before or after the state file caught up with the Cloud (an
\* import, a refresh or the apply itself).  Temporal retries it, or it was the
\* last attempt (eighth, not retryable, or out of the run's hour) and the child
\* fails.
TerraformApplyFails(e) ==
  /\ job[e] = "apply"
  /\ Fault
  /\ \E c \in {cloud[e], want[e]} : \E s \in {state[e], c} :
       /\ cloud' = [cloud EXCEPT ![e] = c]
       /\ state' = [state EXCEPT ![e] = s]
  /\ \/ UNCHANGED <<job, future>>
     \/ CloseChild(e, "failed")
  /\ UNCHANGED <<cred, want, owner, erase, edits>>

\* A key is minted for the worker identity and written to Vault.
MintNamespaceKey(e) ==
  /\ job[e] = "mint"
  /\ cred' = [cred EXCEPT ![e] = TRUE]
  /\ CloseChild(e, "ok")
  /\ UNCHANGED <<cloud, state, want, owner, erase, faults, edits>>

\* A failed attempt: retried, or the last one, and the environment fails with its
\* namespace up.  Where only Vault's answer was lost, Vault has the new key, live or
\* already revoked again.
MintFails(e) ==
  /\ job[e] = "mint"
  /\ Fault
  /\ \E k \in BOOLEAN : cred' = [cred EXCEPT ![e] = k]
  /\ \/ UNCHANGED <<job, future>>
     \/ CloseChild(e, "failed")
  /\ UNCHANGED <<cloud, state, want, owner, erase, edits>>

-----------------------------------------------------------------------------
(* DestroyEnvironmentWorkflow.                                             *)

\* Terraform destroys what the state file lists and nothing else; the worker
\* identity goes with it, which revokes the key in Vault.
TerraformDestroy(e) ==
  /\ erase[e] = "destroy"
  /\ IF state[e] = Absent
     THEN UNCHANGED <<cloud, cred>>
     ELSE /\ cloud' = [cloud EXCEPT ![e] = Absent]
          /\ cred' = [cred EXCEPT ![e] = FALSE]
  /\ state' = [state EXCEPT ![e] = Absent]
  /\ erase' = [erase EXCEPT ![e] = "ok"]
  /\ UNCHANGED <<job, want, owner, future, faults, edits>>

\* A failed attempt: retried, or the last of five.  It stopped before or after
\* deleting what the state file lists, and the state file may not know.
TerraformDestroyFails(e) ==
  /\ erase[e] = "destroy"
  /\ Fault
  /\ IF state[e] = Absent
     THEN UNCHANGED <<cloud, state, cred>>
     ELSE \E c \in {cloud[e], Absent} : \E s \in {state[e], c} :
            /\ cloud' = [cloud EXCEPT ![e] = c]
            /\ state' = [state EXCEPT ![e] = s]
            /\ \/ cred' = [cred EXCEPT ![e] = FALSE]
               \/ c = cloud[e] /\ UNCHANGED cred
  /\ \/ UNCHANGED erase
     \/ erase' = [erase EXCEPT ![e] = "failed"]
  /\ UNCHANGED <<job, want, owner, future, edits>>

-----------------------------------------------------------------------------
(* The Cloud UI: somebody edits retention, or deletes a namespace.         *)

EditRetention(e, r) ==
  /\ edits < MaxEdits
  /\ cloud[e] \in Retention \ {r}
  /\ cloud' = [cloud EXCEPT ![e] = r]
  /\ edits' = edits + 1
  /\ UNCHANGED <<state, cred, job, want, owner, future, erase, faults>>

DeleteNamespace(e) ==
  /\ edits < MaxEdits
  /\ cloud[e] # Absent
  /\ cloud' = [cloud EXCEPT ![e] = Absent]
  /\ edits' = edits + 1
  /\ UNCHANGED <<state, cred, job, want, owner, future, erase, faults>>

ByHand == \E e \in Env : DeleteNamespace(e) \/ \E r \in Retention : EditRetention(e, r)

\* What the children do by themselves, once a parent has started them.
ChildStep(e) ==
  \/ TerraformApply(e) \/ TerraformApplyFails(e)
  \/ MintNamespaceKey(e) \/ MintFails(e)
  \/ TerraformDestroy(e) \/ TerraformDestroyFails(e)

EnvNext == ByHand \/ \E e \in Env : ChildStep(e)
=============================================================================
