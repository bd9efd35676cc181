------------------------- MODULE ControlPlaneProofs -------------------------
(***************************************************************************)
(* What holds however many drivers start the environment children, for     *)
(* every set of environments, of retentions and of drivers.                *)
(***************************************************************************)
EXTENDS ControlPlane, ReconcilerProofs

LEMMA PlaneTypeInit == PlaneInit => PlaneTypeOK
  BY TypeInit, CommandAssumption DEF PlaneInit, PlaneTypeOK, TypeOK

LEMMA PlaneTypeNext == PlaneTypeOK /\ [PlaneNext]_allVars => PlaneTypeOK'
  <1> SUFFICES ASSUME PlaneTypeOK, [PlaneNext]_allVars PROVE PlaneTypeOK'
    OBVIOUS
  <1> USE CommandAssumption DEF PlaneTypeOK
  <1>1. ASSUME NEW s \in Specs, Commit(s) PROVE PlaneTypeOK'
    <2>1. TypeOK'
      BY <1>1, TypeNext DEF Commit, Next, Signal
    <2>2. QED
      BY <1>1, <2>1 DEF Commit
  <1>2. ASSUME NEW s \in Specs, CommitUnheard(s) PROVE PlaneTypeOK'
    BY <1>2, TypeNext DEF CommitUnheard
  <1>3. ASSUME CommitRemoval PROVE PlaneTypeOK'
    BY <1>3, TypeNext DEF CommitRemoval
  <1>4. ASSUME SyncDirectory PROVE PlaneTypeOK'
    <2>1. file \in Specs /\ Sync(file)
      BY <1>4 DEF SyncDirectory
    <2>2. TypeOK'
      BY <2>1, TypeNext DEF Next, Signal
    <2>3. QED
      BY <1>4, <2>2 DEF SyncDirectory, userVars
  <1>5. ASSUME DestroyCommand PROVE PlaneTypeOK'
    <2>1. TypeOK'
      BY <1>5, TypeNext DEF DestroyCommand, Next, Signal
    <2>2. QED
      BY <1>5, <2>1 DEF DestroyCommand
  <1>6. ASSUME DisposeOfSpec PROVE PlaneTypeOK'
    BY <1>6, TypeNext DEF DisposeOfSpec
  <1>7. ASSUME ApplyCommand PROVE PlaneTypeOK'
    BY <1>7, TypeNext DEF ApplyCommand
  <1>8. ASSUME ProvisionStart PROVE PlaneTypeOK'
    <2>1. EnvTypeOK'
      BY <1>8, ProvisioningAssumption
         DEF ProvisionStart, StartChildren, TypeOK, EnvTypeOK, Specs, Actual
    <2>2. TypeOK'
      BY <1>8, <2>1 DEF ProvisionStart, TypeOK, loopVars
    <2>3. QED
      BY <1>8, <2>2 DEF ProvisionStart
  <1>9. ASSUME ProvisionFinish PROVE PlaneTypeOK'
    BY <1>9, TypeNext DEF ProvisionFinish
  <1>10. ASSUME (LoopStep \/ LoopMishap) /\ UNCHANGED userVars PROVE PlaneTypeOK'
    <2>1. TypeOK'
      BY <1>10, TypeNext DEF Next
    <2>2. QED
      BY <1>10, <2>1 DEF userVars
  <1>11. ASSUME EnvNext /\ UNCHANGED <<loopVars, userVars>> PROVE PlaneTypeOK'
    <2>1. TypeOK'
      BY <1>11, TypeNext DEF Next
    <2>2. QED
      BY <1>11, <2>1 DEF userVars
  <1>12. UNCHANGED allVars => PlaneTypeOK'
    BY TypeNext DEF allVars, userVars
  <1>13. QED
    BY <1>1, <1>2, <1>3, <1>4, <1>5, <1>6, <1>7, <1>8, <1>9, <1>10, <1>11, <1>12
       DEF PlaneNext

\* Type correctness of the control plane.
THEOREM PlaneTypeCorrect == PlaneSpec => []PlaneTypeOK
  <1>1. QED
    BY PlaneTypeInit, PlaneTypeNext, PTL DEF PlaneSpec

-----------------------------------------------------------------------------
(***************************************************************************)
(* The workflow id as a lock.  OneOwner is not inductive alone: a driver   *)
(* that started children while it was still waiting for earlier ones would *)
(* lose them.  Neither driver does, because each waits for every future    *)
(* before it leaves the step in which it started them.                     *)
(***************************************************************************)

\* The reconciler and ProvisionWorkflow wait only where they wait, and only for what
\* they asked for.
AwaitInv ==
  \A e \in Env :
    /\ future[Reconciling][e] = "pending" => pc = "collect" /\ e \in desired.envs
    /\ future[Provisioning][e] = "pending" => prov = "collect" /\ e \in order.envs

OwnerInv == OneOwner /\ AwaitInv

LEMMA OwnerInit == PlaneInit => OwnerInv
  BY ReconcilingAssumption, ProvisioningAssumption
     DEF PlaneInit, Init, EnvInit, OwnerInv, OneOwner, AwaitInv

LEMMA OwnerNext == PlaneTypeOK /\ OwnerInv /\ [PlaneNext]_allVars => OwnerInv'
  <1> SUFFICES ASSUME PlaneTypeOK, OwnerInv, [PlaneNext]_allVars PROVE OwnerInv'
    OBVIOUS
  <1> USE ReconcilingAssumption, ProvisioningAssumption
      DEF PlaneTypeOK, TypeOK, EnvTypeOK, OwnerInv, OneOwner, AwaitInv
  <1> DEFINE Children == UNCHANGED <<job, owner, future>>
  <1>1. ASSUME Children, UNCHANGED <<pc, desired, prov, order>> PROVE OwnerInv'
    BY <1>1
  <1>2. ASSUME NEW s \in Specs, Sync(s), UNCHANGED <<prov, order>> PROVE OwnerInv'
    BY <1>2 DEF Sync, envVars
  <1>3. ASSUME NEW s \in Specs, Commit(s) PROVE OwnerInv'
    BY <1>2, <1>3 DEF Commit
  <1>4. ASSUME NEW s \in Specs, CommitUnheard(s) PROVE OwnerInv'
    BY <1>1, <1>4 DEF CommitUnheard, vars, envVars, loopVars
  <1>5. ASSUME CommitRemoval \/ DisposeOfSpec PROVE OwnerInv'
    BY <1>1, <1>5 DEF CommitRemoval, DisposeOfSpec, vars, envVars, loopVars
  <1>6. ASSUME SyncDirectory PROVE OwnerInv'
    BY <1>2, <1>6 DEF SyncDirectory, userVars
  <1>7. ASSUME DestroyCommand PROVE OwnerInv'
    BY <1>1, <1>7 DEF DestroyCommand, RequestDestroy, envVars
  <1>8. ASSUME ApplyCommand PROVE OwnerInv'
    BY <1>8 DEF ApplyCommand, vars, envVars, loopVars
  <1>9. ASSUME ProvisionStart PROVE OwnerInv'
    BY <1>9 DEF ProvisionStart, StartChildren, Specs, loopVars
  <1>10. ASSUME ProvisionFinish PROVE OwnerInv'
    BY <1>10 DEF ProvisionFinish, vars, envVars, loopVars
  <1>11. ASSUME LoopStep \/ ContinueAsNew, UNCHANGED userVars PROVE OwnerInv'
    <2>1. CASE StartEnvironments
      BY <1>11, <2>1 DEF StartEnvironments, StartChildren, Specs, userVars
    <2>2. CASE Collect
      BY <1>11, <2>2 DEF Collect, envVars, userVars
    <2>3. ASSUME NEW e \in Env, StartDestroy(e) \/ FinishDestroy(e) PROVE OwnerInv'
      BY <1>1, <1>11, <2>3 DEF StartDestroy, FinishDestroy, loopVars, userVars
    <2>4. CASE PruneDone
      BY <1>11, <2>4 DEF PruneDone, envVars, userVars
    <2>5. CASE WaitForNext
      BY <1>11, <2>5 DEF WaitForNext, envVars, userVars
    <2>6. CASE HandleApply
      BY <1>11, <2>6 DEF HandleApply, envVars, userVars
    <2>7. CASE HandleDestroy
      BY <1>11, <2>7 DEF HandleDestroy, envVars, userVars
    <2>8. CASE Tick
      BY <1>11, <2>8 DEF Tick, envVars, userVars
    <2>9. ASSUME NEW e \in Env, CheckDrift(e) PROVE OwnerInv'
      BY <1>1, <1>11, <2>9 DEF CheckDrift, envVars, userVars
    <2>10. CASE FinishDriftCheck
      BY <1>11, <2>10 DEF FinishDriftCheck, envVars, userVars
    <2>11. CASE ContinueAsNew
      BY <1>11, <2>11 DEF ContinueAsNew, envVars, userVars
    <2>12. QED
      BY <1>11, <2>1, <2>2, <2>3, <2>4, <2>5, <2>6, <2>7, <2>8, <2>9, <2>10, <2>11
         DEF LoopStep
  <1>12. ASSUME NEW e \in Env, DriftCheckFails(e), UNCHANGED userVars PROVE OwnerInv'
    BY <1>1, <1>12 DEF DriftCheckFails, userVars
  <1>13. ASSUME NEW e \in Env, ChildStep(e), UNCHANGED <<loopVars, userVars>> PROVE OwnerInv'
    <2>1. ASSUME NEW res \in {"ok", "failed"}, job[e] # "idle", CloseChild(e, res),
                 UNCHANGED owner
          PROVE  OwnerInv'
      BY <1>13, <2>1 DEF CloseChild, loopVars, userVars
    <2>2. CASE TerraformApply(e)
      BY <1>13, <2>2 DEF TerraformApply, loopVars, userVars
    <2>3. CASE TerraformApplyFails(e)
      <3>1. CASE UNCHANGED <<job, future>>
        BY <1>1, <1>13, <2>3, <3>1 DEF TerraformApplyFails, loopVars, userVars
      <3>2. CASE CloseChild(e, "failed")
        BY <2>1, <2>3, <3>2 DEF TerraformApplyFails
      <3>3. QED
        BY <2>3, <3>1, <3>2 DEF TerraformApplyFails
    <2>4. CASE MintNamespaceKey(e)
      BY <2>1, <2>4 DEF MintNamespaceKey
    <2>5. CASE MintFails(e)
      <3>1. CASE UNCHANGED <<job, future>>
        BY <1>1, <1>13, <2>5, <3>1 DEF MintFails, loopVars, userVars
      <3>2. CASE CloseChild(e, "failed")
        BY <2>1, <2>5, <3>2 DEF MintFails
      <3>3. QED
        BY <2>5, <3>1, <3>2 DEF MintFails
    <2>6. CASE TerraformDestroy(e) \/ TerraformDestroyFails(e)
      BY <1>1, <1>13, <2>6 DEF TerraformDestroy, TerraformDestroyFails, loopVars, userVars
    <2>7. QED
      BY <1>13, <2>2, <2>3, <2>4, <2>5, <2>6 DEF ChildStep
  <1>14. ASSUME ByHand, UNCHANGED <<loopVars, userVars>> PROVE OwnerInv'
    BY <1>1, <1>14 DEF ByHand, EditRetention, DeleteNamespace, loopVars, userVars
  <1>15. UNCHANGED allVars => OwnerInv'
    BY <1>1 DEF allVars, vars, envVars, loopVars, userVars
  <1>16. QED
    BY <1>3, <1>4, <1>5, <1>6, <1>7, <1>8, <1>9, <1>10, <1>11, <1>12, <1>13, <1>14, <1>15
       DEF PlaneNext, EnvNext, LoopMishap

\* A driver waits exactly for the open children it started, whatever the other driver
\* starts meanwhile under the same workflow ids.
THEOREM EachChildOneOwner == PlaneSpec => []OneOwner
  <1>1. PlaneTypeOK /\ OwnerInv /\ [PlaneNext]_allVars => (PlaneTypeOK /\ OwnerInv)'
    BY PlaneTypeNext, OwnerNext
  <1>2. OwnerInv => OneOwner
    BY DEF OwnerInv
  <1>3. QED
    BY <1>1, <1>2, PlaneTypeInit, OwnerInit, PTL DEF PlaneSpec

-----------------------------------------------------------------------------
(***************************************************************************)
(* What of the reconciler survives a second driver.  To the reconciler a   *)
(* step of the control plane is a step of its own, no step at all, or      *)
(* somebody else who starts apply children.                                *)
(***************************************************************************)

LEMMA ReconcilersView ==
  PlaneTypeOK /\ [PlaneNext]_allVars => [Next]_vars \/ ProvisionStart
  <1> SUFFICES ASSUME PlaneTypeOK, [PlaneNext]_allVars PROVE [Next]_vars \/ ProvisionStart
    OBVIOUS
  <1>1. ASSUME NEW s \in Specs, Commit(s) PROVE Next
    BY <1>1 DEF Commit, Next, Signal
  <1>2. ASSUME NEW s \in Specs, CommitUnheard(s) PROVE UNCHANGED vars
    BY <1>2 DEF CommitUnheard
  <1>3. ASSUME SyncDirectory PROVE Next
    <2>1. file \in Specs /\ Sync(file)
      BY <1>3 DEF SyncDirectory, PlaneTypeOK
    <2>2. QED
      BY <2>1 DEF Next, Signal
  <1>4. DestroyCommand => Next
    BY DEF DestroyCommand, Next, Signal
  <1>5. CommitRemoval \/ DisposeOfSpec \/ ApplyCommand \/ ProvisionFinish => UNCHANGED vars
    BY DEF CommitRemoval, DisposeOfSpec, ApplyCommand, ProvisionFinish
  <1>6. LoopStep \/ LoopMishap \/ (EnvNext /\ UNCHANGED loopVars) => Next
    BY DEF Next
  <1>7. UNCHANGED <<loopVars, userVars>> => UNCHANGED loopVars
    OBVIOUS
  <1>8. UNCHANGED allVars => UNCHANGED vars
    BY DEF allVars
  <1>9. QED
    BY <1>1, <1>2, <1>3, <1>4, <1>5, <1>6, <1>7, <1>8 DEF PlaneNext

LEMMA PlaneTyped == PlaneSpec => [](PlaneTypeOK /\ OwnerInv)
  <1>1. PlaneTypeOK /\ OwnerInv /\ [PlaneNext]_allVars => (PlaneTypeOK /\ OwnerInv)'
    BY PlaneTypeNext, OwnerNext
  <1>2. QED
    BY <1>1, PlaneTypeInit, OwnerInit, PTL DEF PlaneSpec

\* IntentKept with tpctl apply about: the loop still hears every spec delivered.
THEOREM PlaneKeepsIntent == PlaneSpec => []IntentKept
  <1>1. PlaneInit => LastHeard
    BY DEF PlaneInit, Init, LastHeard
  <1>2. PlaneTypeOK /\ LastHeard /\ [PlaneNext]_allVars => LastHeard'
    <2>1. ProvisionStart /\ LastHeard => LastHeard'
      BY DEF ProvisionStart, loopVars, LastHeard
    <2>2. PlaneTypeOK => TypeOK
      BY DEF PlaneTypeOK
    <2>3. QED
      BY <2>1, <2>2, ReconcilersView, LastHeardNext
  <1>3. LastHeard => IntentKept
    BY DEF LastHeard, IntentKept
  <1>4. QED
    BY <1>1, <1>2, <1>3, PlaneTyped, PTL DEF PlaneSpec

\* The destroy children run while the reconciler prunes, and only for what it prunes:
\* the part of EraseInv that no apply child can disturb.
TeardownInv ==
  /\ \A e \in Env : erase[e] # "idle" => pc = "prune" /\ e \in stale
  /\ PruneInv
  /\ RetireInv

LEMMA TeardownNext == TypeOK /\ TeardownInv /\ [Next]_vars => TeardownInv'
  <1> SUFFICES ASSUME TypeOK, TeardownInv, [Next]_vars PROVE TeardownInv'
    OBVIOUS
  <1> USE DEF TeardownInv, PruneInv, RetireInv
  <1>1. UNCHANGED <<erase, pc, stale, retiring, desired>> => TeardownInv'
    OBVIOUS
  <1>2. ASSUME NEW s \in Specs, Sync(s) PROVE TeardownInv'
    BY <1>2 DEF Sync, envVars
  <1>3. RequestDestroy => TeardownInv'
    BY <1>1 DEF RequestDestroy, envVars
  <1>4. StartEnvironments \/ Collect => TeardownInv'
    BY DEF StartEnvironments, Collect, envVars
  <1>5. ASSUME NEW e \in Env, StartDestroy(e) PROVE TeardownInv'
    BY <1>5 DEF StartDestroy, loopVars, TypeOK, EnvTypeOK
  <1>6. ASSUME NEW e \in Env, FinishDestroy(e) PROVE TeardownInv'
    <2>1. \A f \in Env : f # e => erase[f] = "idle" \/ f \in stale'
      BY <1>6 DEF FinishDestroy
    <2>2. QED
      BY <1>6, <2>1 DEF FinishDestroy, TypeOK, EnvTypeOK
  <1>7. PruneDone => TeardownInv'
    BY DEF PruneDone, envVars
  <1>8. WaitForNext \/ ContinueAsNew \/ HandleApply \/ Tick \/ FinishDriftCheck => TeardownInv'
    BY DEF WaitForNext, ContinueAsNew, HandleApply, Tick, FinishDriftCheck, envVars
  <1>9. HandleDestroy => TeardownInv'
    BY DEF HandleDestroy, envVars
  <1>10. ASSUME NEW e \in Env, CheckDrift(e) \/ DriftCheckFails(e) PROVE TeardownInv'
    BY <1>1, <1>10 DEF CheckDrift, DriftCheckFails, envVars
  <1>11. ASSUME NEW e \in Env, ChildStep(e), UNCHANGED loopVars PROVE TeardownInv'
    <2>1. CASE UNCHANGED erase
      BY <1>1, <1>11, <2>1 DEF loopVars
    <2>2. ASSUME erase[e] = "destroy", NEW r \in {"ok", "failed"},
                 erase' = [erase EXCEPT ![e] = r]
          PROVE  TeardownInv'
      BY <1>11, <2>2 DEF loopVars, TypeOK, EnvTypeOK
    <2>3. TerraformApply(e) \/ TerraformApplyFails(e) \/ MintNamespaceKey(e) \/ MintFails(e)
            => UNCHANGED erase
      BY DEF TerraformApply, TerraformApplyFails, MintNamespaceKey, MintFails
    <2>4. CASE TerraformDestroy(e)
      BY <2>2, <2>4 DEF TerraformDestroy
    <2>5. CASE TerraformDestroyFails(e)
      BY <2>1, <2>2, <2>5 DEF TerraformDestroyFails
    <2>6. QED
      BY <1>11, <2>1, <2>3, <2>4, <2>5 DEF ChildStep
  <1>12. ASSUME ByHand, UNCHANGED loopVars PROVE TeardownInv'
    BY <1>1, <1>12 DEF ByHand, EditRetention, DeleteNamespace, loopVars
  <1>13. UNCHANGED vars => TeardownInv'
    BY <1>1 DEF vars, envVars, loopVars
  <1>14. QED
    BY <1>2, <1>3, <1>4, <1>5, <1>6, <1>7, <1>8, <1>9, <1>10, <1>11, <1>12, <1>13
       DEF Next, Signal, LoopStep, LoopMishap, EnvNext

LEMMA Teardown == PlaneSpec => []TeardownInv
  <1>1. PlaneInit => TeardownInv
    BY DEF PlaneInit, Init, EnvInit, TeardownInv, PruneInv, RetireInv
  <1>2. PlaneTypeOK /\ TeardownInv /\ [PlaneNext]_allVars => TeardownInv'
    <2>1. ProvisionStart /\ TeardownInv => TeardownInv'
      BY DEF ProvisionStart, loopVars, TeardownInv, PruneInv, RetireInv
    <2>2. PlaneTypeOK => TypeOK
      BY DEF PlaneTypeOK
    <2>3. QED
      BY <2>1, <2>2, ReconcilersView, TeardownNext
  <1>3. QED
    BY <1>1, <1>2, PlaneTyped, PTL DEF PlaneSpec

\* DestroysOnlyUnwanted with tpctl apply about.  (SingleWriter is lost: an apply child of
\* ProvisionWorkflow may run beside the destroy.  What is destroyed is still unwanted.)
THEOREM PlaneDestroysTheUnwanted == PlaneSpec => []DestroysOnlyUnwanted
  <1>1. TeardownInv => DestroysOnlyUnwanted
    BY DEF TeardownInv, PruneInv, DestroysOnlyUnwanted
  <1>2. QED
    BY <1>1, Teardown, PTL

-----------------------------------------------------------------------------
(***************************************************************************)
(* What the open children were asked for, and what the drivers were told.  *)
(***************************************************************************)

\* An open apply child works with the retention of the driver that started it: a spec
\* cannot change under its children, nor an order.
DemandInv ==
  \A e \in Env : job[e] # "idle" =>
    \/ owner[e] = Reconciling /\ want[e] = desired.ret
    \/ owner[e] = Provisioning /\ want[e] = order.ret

\* A driver that waits was told something about everything it asked for.
ToldInv ==
  \A e \in Env :
    /\ pc = "collect" /\ e \in desired.envs => future[Reconciling][e] # "none"
    /\ prov = "collect" /\ e \in order.envs => future[Provisioning][e] # "none"

LEMMA DemandInit == PlaneInit => DemandInv /\ ToldInv
  BY DEF PlaneInit, Init, EnvInit, DemandInv, ToldInv

LEMMA DemandNext ==
  PlaneTypeOK /\ OwnerInv /\ DemandInv /\ ToldInv /\ [PlaneNext]_allVars
    => DemandInv' /\ ToldInv'
  <1> SUFFICES ASSUME PlaneTypeOK, OwnerInv, DemandInv, ToldInv, [PlaneNext]_allVars
               PROVE  DemandInv' /\ ToldInv'
    OBVIOUS
  <1> USE ReconcilingAssumption, ProvisioningAssumption
      DEF PlaneTypeOK, TypeOK, EnvTypeOK, OwnerInv, OneOwner, AwaitInv, DemandInv, ToldInv
  <1> DEFINE Goal == DemandInv' /\ ToldInv'
  <1> DEFINE Children == UNCHANGED <<job, want, owner, future>>
  <1>1. ASSUME Children, UNCHANGED <<pc, desired, prov, order>> PROVE Goal
    BY <1>1
  <1>2. ASSUME NEW s \in Specs, Sync(s), UNCHANGED <<prov, order>> PROVE Goal
    BY <1>2 DEF Sync, envVars
  <1>3. ASSUME NEW s \in Specs, Commit(s) PROVE Goal
    BY <1>2, <1>3 DEF Commit
  <1>4. ASSUME NEW s \in Specs, CommitUnheard(s) PROVE Goal
    BY <1>1, <1>4 DEF CommitUnheard, vars, envVars, loopVars
  <1>5. ASSUME CommitRemoval \/ DisposeOfSpec PROVE Goal
    BY <1>1, <1>5 DEF CommitRemoval, DisposeOfSpec, vars, envVars, loopVars
  <1>6. ASSUME SyncDirectory PROVE Goal
    BY <1>2, <1>6 DEF SyncDirectory, userVars
  <1>7. ASSUME DestroyCommand PROVE Goal
    BY <1>1, <1>7 DEF DestroyCommand, RequestDestroy, envVars
  <1>8. ASSUME ApplyCommand PROVE Goal
    BY <1>8 DEF ApplyCommand, vars, envVars, loopVars
  <1>9. ASSUME ProvisionStart PROVE Goal
    BY <1>9 DEF ProvisionStart, StartChildren, Specs, loopVars
  <1>10. ASSUME ProvisionFinish PROVE Goal
    BY <1>10 DEF ProvisionFinish, vars, envVars, loopVars
  <1>11. ASSUME LoopStep \/ ContinueAsNew, UNCHANGED userVars PROVE Goal
    <2>1. CASE StartEnvironments
      BY <1>11, <2>1 DEF StartEnvironments, StartChildren, Specs, userVars
    <2>2. CASE Collect
      BY <1>11, <2>2 DEF Collect, envVars, userVars
    <2>3. ASSUME NEW e \in Env, StartDestroy(e) \/ FinishDestroy(e) PROVE Goal
      BY <1>1, <1>11, <2>3 DEF StartDestroy, FinishDestroy, loopVars, userVars
    <2>4. CASE PruneDone
      BY <1>11, <2>4 DEF PruneDone, envVars, userVars
    <2>5. CASE WaitForNext
      BY <1>11, <2>5 DEF WaitForNext, envVars, userVars
    <2>6. CASE HandleApply
      BY <1>11, <2>6 DEF HandleApply, envVars, userVars
    <2>7. CASE HandleDestroy
      BY <1>11, <2>7 DEF HandleDestroy, envVars, userVars
    <2>8. CASE Tick
      BY <1>11, <2>8 DEF Tick, envVars, userVars
    <2>9. ASSUME NEW e \in Env, CheckDrift(e) PROVE Goal
      BY <1>1, <1>11, <2>9 DEF CheckDrift, envVars, userVars
    <2>10. CASE FinishDriftCheck
      BY <1>11, <2>10 DEF FinishDriftCheck, envVars, userVars
    <2>11. CASE ContinueAsNew
      BY <1>11, <2>11 DEF ContinueAsNew, envVars, userVars
    <2>12. QED
      BY <1>11, <2>1, <2>2, <2>3, <2>4, <2>5, <2>6, <2>7, <2>8, <2>9, <2>10, <2>11
         DEF LoopStep
  <1>12. ASSUME NEW e \in Env, DriftCheckFails(e), UNCHANGED userVars PROVE Goal
    BY <1>1, <1>12 DEF DriftCheckFails, userVars
  <1>13. ASSUME NEW e \in Env, ChildStep(e), UNCHANGED <<loopVars, userVars>> PROVE Goal
    <2>1. ASSUME NEW res \in {"ok", "failed"}, CloseChild(e, res), UNCHANGED <<owner, want>>
          PROVE  Goal
      BY <1>13, <2>1 DEF CloseChild, loopVars, userVars
    <2>2. CASE TerraformApply(e)
      BY <1>13, <2>2 DEF TerraformApply, loopVars, userVars
    <2>3. CASE TerraformApplyFails(e)
      <3>1. CASE UNCHANGED <<job, future>>
        BY <1>1, <1>13, <2>3, <3>1 DEF TerraformApplyFails, loopVars, userVars
      <3>2. CASE CloseChild(e, "failed")
        BY <2>1, <2>3, <3>2 DEF TerraformApplyFails
      <3>3. QED
        BY <2>3, <3>1, <3>2 DEF TerraformApplyFails
    <2>4. CASE MintNamespaceKey(e)
      BY <2>1, <2>4 DEF MintNamespaceKey
    <2>5. CASE MintFails(e)
      <3>1. CASE UNCHANGED <<job, future>>
        BY <1>1, <1>13, <2>5, <3>1 DEF MintFails, loopVars, userVars
      <3>2. CASE CloseChild(e, "failed")
        BY <2>1, <2>5, <3>2 DEF MintFails
      <3>3. QED
        BY <2>5, <3>1, <3>2 DEF MintFails
    <2>6. CASE TerraformDestroy(e) \/ TerraformDestroyFails(e)
      BY <1>1, <1>13, <2>6 DEF TerraformDestroy, TerraformDestroyFails, loopVars, userVars
    <2>7. QED
      BY <1>13, <2>2, <2>3, <2>4, <2>5, <2>6 DEF ChildStep
  <1>14. ASSUME ByHand, UNCHANGED <<loopVars, userVars>> PROVE Goal
    BY <1>1, <1>14 DEF ByHand, EditRetention, DeleteNamespace, loopVars, userVars
  <1>15. UNCHANGED allVars => Goal
    BY <1>1 DEF allVars, vars, envVars, loopVars, userVars
  <1>16. QED
    BY <1>3, <1>4, <1>5, <1>6, <1>7, <1>8, <1>9, <1>10, <1>11, <1>12, <1>13, <1>14, <1>15
       DEF PlaneNext, EnvNext, LoopMishap

LEMMA Demand == PlaneSpec => [](DemandInv /\ ToldInv)
  <1>1. QED
    BY DemandInit, DemandNext, PlaneTyped, PTL DEF PlaneSpec

\* What an open child is working for, whoever started it.
Asked(e) ==
  \/ pc = "collect" /\ e \in desired.envs /\ want[e] = desired.ret
  \/ prov = "collect" /\ e \in order.envs /\ want[e] = order.ret

LEMMA OpenIsAsked ==
  ASSUME PlaneTypeOK, OwnerInv, DemandInv, NEW e \in Env, job[e] # "idle"
  PROVE  Asked(e)
  <1>1. future[owner[e]][e] = "pending"
    BY DEF PlaneTypeOK, TypeOK, EnvTypeOK, OwnerInv, OneOwner
  <1>2. CASE owner[e] = Reconciling /\ want[e] = desired.ret
    BY <1>1, <1>2 DEF OwnerInv, AwaitInv, Asked
  <1>3. CASE owner[e] = Provisioning /\ want[e] = order.ret
    BY <1>1, <1>3 DEF OwnerInv, AwaitInv, Asked
  <1>4. QED
    BY <1>2, <1>3 DEF DemandInv

\* Every write to the Cloud that no hand made: the children write, and each for what is
\* asked at that moment.
THEOREM PlaneWritesAreAsked == PlaneSpec => WritesAreAsked
  <1> DEFINE Write(e) ==
        \/ cloud'[e] = Absent /\ (retiring \/ e \notin desired.envs)
        \/ pc = "collect" /\ e \in desired.envs /\ cloud'[e] = desired.ret
        \/ prov = "collect" /\ e \in order.envs /\ cloud'[e] = order.ret
  <1> DEFINE Step == \A e \in Env : cloud'[e] # cloud[e] /\ edits' = edits => Write(e)
  <1>1. PlaneTypeOK /\ OwnerInv /\ DemandInv /\ TeardownInv /\ [PlaneNext]_allVars
          => [Step]_allVars
    <2> SUFFICES ASSUME PlaneTypeOK, OwnerInv, DemandInv, TeardownInv, PlaneNext
                 PROVE  Step
      OBVIOUS
    <2>1. cloud' = cloud => Step
      OBVIOUS
    <2>2. ASSUME Next PROVE Step
      <3>1. Signal \/ LoopStep \/ LoopMishap => cloud' = cloud
        BY DEF Signal, RequestDestroy, Sync, LoopStep, LoopMishap, StartEnvironments, Collect,
               StartDestroy, FinishDestroy, PruneDone, WaitForNext, HandleApply,
               HandleDestroy, Tick, CheckDrift, FinishDriftCheck, ContinueAsNew,
               DriftCheckFails, envVars
      <3>2. ByHand => Step
        BY DEF ByHand, EditRetention, DeleteNamespace, PlaneTypeOK, TypeOK, EnvTypeOK
      <3>3. ASSUME NEW e \in Env, ChildStep(e) PROVE Step
        <4>1. ASSUME job[e] = "apply",
                     cloud' = cloud \/ cloud' = [cloud EXCEPT ![e] = want[e]]
              PROVE  Step
          <5>1. Asked(e)
            BY <4>1, OpenIsAsked
          <5>2. QED
            BY <4>1, <5>1 DEF Asked, PlaneTypeOK, TypeOK, EnvTypeOK
        <4>2. ASSUME erase[e] = "destroy",
                     cloud' = cloud \/ cloud' = [cloud EXCEPT ![e] = Absent]
              PROVE  Step
          <5>1. retiring \/ e \notin desired.envs
            BY <4>2 DEF TeardownInv, PruneInv
          <5>2. QED
            BY <4>2, <5>1 DEF PlaneTypeOK, TypeOK, EnvTypeOK
        <4>3. TerraformApply(e) => Step
          BY <4>1 DEF TerraformApply
        <4>4. ASSUME TerraformApplyFails(e) PROVE Step
          <5>1. PICK c \in {cloud[e], want[e]} : cloud' = [cloud EXCEPT ![e] = c]
            BY <4>4 DEF TerraformApplyFails
          <5>2. cloud' = cloud \/ cloud' = [cloud EXCEPT ![e] = want[e]]
            BY <5>1 DEF PlaneTypeOK, TypeOK, EnvTypeOK
          <5>3. QED
            BY <4>1, <4>4, <5>2 DEF TerraformApplyFails
        <4>5. TerraformDestroy(e) => Step
          BY <4>2 DEF TerraformDestroy
        <4>6. ASSUME TerraformDestroyFails(e) PROVE Step
          <5>1. cloud' = cloud \/ \E c \in {cloud[e], Absent} : cloud' = [cloud EXCEPT ![e] = c]
            BY <4>6 DEF TerraformDestroyFails
          <5>2. cloud' = cloud \/ cloud' = [cloud EXCEPT ![e] = Absent]
            BY <5>1 DEF PlaneTypeOK, TypeOK, EnvTypeOK
          <5>3. QED
            BY <4>2, <4>6, <5>2 DEF TerraformDestroyFails
        <4>7. MintNamespaceKey(e) \/ MintFails(e) => cloud' = cloud
          BY DEF MintNamespaceKey, MintFails
        <4>8. QED
          BY <2>1, <3>3, <4>3, <4>4, <4>5, <4>6, <4>7 DEF ChildStep
      <3>4. QED
        BY <2>1, <2>2, <3>1, <3>2, <3>3 DEF Next, EnvNext
    <2>3. ProvisionStart => cloud' = cloud
      BY DEF ProvisionStart
    <2>4. UNCHANGED vars => cloud' = cloud
      BY DEF vars, envVars
    <2>5. QED
      BY <2>1, <2>2, <2>3, <2>4, ReconcilersView
  <1>2. QED
    BY <1>1, PlaneTyped, Demand, Teardown, PTL DEF PlaneSpec, WritesAreAsked

\* The safety half of ApplyReturns, and of the loop's progress through reconcile(): a
\* driver that waits is never left with a future nobody will resolve.  Whatever it has
\* not been told yet, an open child that it started itself is at work on.
NobodyWaitsInVain ==
  \A e \in Env :
    /\ pc = "collect" /\ e \in desired.envs =>
         \/ future[Reconciling][e] \in {"ok", "failed"}
         \/ job[e] # "idle" /\ owner[e] = Reconciling
    /\ prov = "collect" /\ e \in order.envs =>
         \/ future[Provisioning][e] \in {"ok", "failed"}
         \/ job[e] # "idle" /\ owner[e] = Provisioning

\* No wait is in vain, for any number of environments and whatever the children of the
\* other driver do.
THEOREM NoVainWait == PlaneSpec => []NobodyWaitsInVain
  <1>1. ASSUME PlaneTypeOK, OwnerInv, NEW d \in Driver, NEW e \in Env, future[d][e] # "none"
        PROVE  future[d][e] \in {"ok", "failed"} \/ (job[e] # "idle" /\ owner[e] = d)
    <2>1. future[d][e] \in {"none", "pending", "ok", "failed"}
      <3>1. future \in [Driver -> [Env -> {"none", "pending", "ok", "failed"}]]
        BY <1>1 DEF PlaneTypeOK, TypeOK, EnvTypeOK
      <3>2. QED
        BY <3>1
    <2>2. QED
      BY <1>1, <2>1 DEF OwnerInv, OneOwner
  <1>2. Reconciling \in Driver /\ Provisioning \in Driver
    BY ReconcilingAssumption, ProvisioningAssumption
  <1>3. PlaneTypeOK /\ OwnerInv /\ ToldInv => NobodyWaitsInVain
    BY <1>1, <1>2 DEF ToldInv, NobodyWaitsInVain
  <1>4. QED
    BY <1>3, PlaneTyped, Demand, PTL
=============================================================================
