-------------------------- MODULE ReconcilerProofs --------------------------
(***************************************************************************)
(* Proofs about NamespaceWorkflow for every set of environments, every set *)
(* of retentions and every bound.                                          *)
(***************************************************************************)
EXTENDS Reconciler, SequenceTheorems, TLAPS

\* The signal queues a run starts with.
LEMMA Queues == <<>> \in Seq(Specs) /\ \A s \in Specs : <<s>> \in Seq(Specs)
  <1>1. <<>> \in Seq(Specs)
    BY EmptySeq
  <1>2. ASSUME NEW s \in Specs PROVE <<s>> \in Seq(Specs)
    BY <1>1, AppendProperties
  <1>3. QED
    BY <1>1, <1>2

LEMMA TypeInit == Init => TypeOK
  <1> SUFFICES ASSUME Init PROVE TypeOK
    OBVIOUS
  <1>1. EnvTypeOK
    <2>1. want \in [Env -> Retention]
      BY RetentionAssumption DEF Init, EnvInit
    <2>2. owner \in [Env -> Driver]
      BY DriverAssumption DEF Init, EnvInit
    <2>3. QED
      BY <2>1, <2>2, FaultAssumption DEF Init, EnvInit, EnvTypeOK, Actual
  <1>2. applyQ \in Seq(Specs)
    BY Queues DEF Init
  <1>3. checks \in [Env -> {"none", "pending", "clean", "drifted", "failed"}]
    BY DEF Init, NoChecks
  <1>4. sent \in 0..MaxSignals /\ continued \in 0..MaxContinue
    BY BoundAssumption DEF Init
  <1>5. QED
    BY <1>1, <1>2, <1>3, <1>4 DEF Init, TypeOK

LEMMA TypeNext == TypeOK /\ [Next]_vars => TypeOK'
  <1> SUFFICES ASSUME TypeOK, [Next]_vars PROVE TypeOK'
    OBVIOUS
  <1> USE FaultAssumption, BoundAssumption, ReconcilingAssumption
      DEF TypeOK, EnvTypeOK, Actual, NoChecks, Fault
  <1>1. RequestDestroy => TypeOK'
    BY DEF RequestDestroy, envVars
  <1>2. ASSUME NEW s \in Specs, Sync(s) PROVE TypeOK'
    <2>1. applyQ' \in Seq(Specs)
      <3>1. CASE pc = "none"
        BY <1>2, <3>1, Queues DEF Sync
      <3>2. CASE pc # "none"
        BY <1>2, <3>2, AppendProperties DEF Sync
      <3>3. QED
        BY <3>1, <3>2
    <2>2. EnvTypeOK'
      BY <1>2 DEF Sync, envVars
    <2>3. /\ pc' \in {"none", "quota", "collect", "prune", "loop", "wait", "drift"}
          /\ desired' \in Specs /\ retiring' \in BOOLEAN /\ destroyQ' \in BOOLEAN
      BY <1>2 DEF Sync
    <2>4. QED
      BY <1>2, <2>1, <2>2, <2>3 DEF Sync
  <1>3. StartEnvironments => TypeOK'
    BY DEF StartEnvironments, StartChildren, Specs
  <1>4. Collect => TypeOK'
    BY DEF Collect, envVars, Specs
  <1>5. ASSUME NEW e \in Env, StartDestroy(e) PROVE TypeOK'
    BY <1>5 DEF StartDestroy, loopVars
  <1>6. ASSUME NEW e \in Env, FinishDestroy(e) PROVE TypeOK'
    BY <1>6 DEF FinishDestroy
  <1>7. PruneDone => TypeOK'
    BY Queues DEF PruneDone, ForgetAll, envVars
  <1>8. WaitForNext => TypeOK'
    BY DEF WaitForNext, envVars
  <1>9. ContinueAsNew => TypeOK'
    <2> SUFFICES ASSUME ContinueAsNew PROVE TypeOK'
      OBVIOUS
    <2>1. applyQ' \in Seq(Specs)
      BY Queues DEF ContinueAsNew
    <2>2. continued' \in 0..MaxContinue
      BY DEF ContinueAsNew
    <2>3. EnvTypeOK'
      BY DEF ContinueAsNew, envVars
    <2>4. QED
      BY <2>1, <2>2, <2>3 DEF ContinueAsNew, ForgetAll
  <1>10. HandleApply => TypeOK'
    BY DEF HandleApply, envVars
  <1>11. HandleDestroy => TypeOK'
    BY DEF HandleDestroy, envVars
  <1>12. Tick => TypeOK'
    BY DEF Tick, envVars
  <1>13. ASSUME NEW e \in Env, CheckDrift(e) PROVE TypeOK'
    BY <1>13 DEF CheckDrift, envVars
  <1>14. ASSUME NEW e \in Env, DriftCheckFails(e) PROVE TypeOK'
    BY <1>14 DEF DriftCheckFails
  <1>15. FinishDriftCheck => TypeOK'
    BY DEF FinishDriftCheck, envVars
  <1>16. ASSUME NEW e \in Env, ChildStep(e), UNCHANGED loopVars PROVE TypeOK'
    <2>1. CASE TerraformApply(e)
      BY <1>16, <2>1 DEF TerraformApply, loopVars
    <2>2. CASE TerraformApplyFails(e)
      <3>1. PICK c \in {cloud[e], want[e]} : \E s \in {state[e], c} :
              /\ cloud' = [cloud EXCEPT ![e] = c]
              /\ state' = [state EXCEPT ![e] = s]
        BY <2>2 DEF TerraformApplyFails
      <3>2. cloud' \in [Env -> Actual] /\ state' \in [Env -> Actual]
        BY <3>1
      <3>3. /\ job' \in [Env -> {"idle", "apply", "mint"}]
            /\ future' \in [Driver -> [Env -> {"none", "pending", "ok", "failed"}]]
        <4>1. CASE UNCHANGED <<job, future>>
          BY <4>1
        <4>2. CASE CloseChild(e, "failed")
          BY <4>2 DEF CloseChild
        <4>3. QED
          BY <2>2, <4>1, <4>2 DEF TerraformApplyFails
      <3>4. QED
        BY <1>16, <2>2, <3>2, <3>3 DEF TerraformApplyFails, loopVars
    <2>3. CASE MintNamespaceKey(e)
      BY <1>16, <2>3 DEF MintNamespaceKey, CloseChild, loopVars
    <2>4. CASE MintFails(e)
      <3>1. cred' \in [Env -> BOOLEAN]
        BY <2>4 DEF MintFails
      <3>2. /\ job' \in [Env -> {"idle", "apply", "mint"}]
            /\ future' \in [Driver -> [Env -> {"none", "pending", "ok", "failed"}]]
        <4>1. CASE UNCHANGED <<job, future>>
          BY <4>1
        <4>2. CASE CloseChild(e, "failed")
          BY <4>2 DEF CloseChild
        <4>3. QED
          BY <2>4, <4>1, <4>2 DEF MintFails
      <3>3. QED
        BY <1>16, <2>4, <3>1, <3>2 DEF MintFails, loopVars
    <2>5. CASE TerraformDestroy(e)
      BY <1>16, <2>5 DEF TerraformDestroy, loopVars
    <2>6. CASE TerraformDestroyFails(e)
      <3>1. /\ cloud' \in [Env -> Actual] /\ state' \in [Env -> Actual]
            /\ cred' \in [Env -> BOOLEAN]
        <4>1. CASE state[e] = Absent
          BY <2>6, <4>1 DEF TerraformDestroyFails
        <4>2. CASE state[e] # Absent
          <5>1. PICK c \in {cloud[e], Absent} : \E s \in {state[e], c} :
                  /\ cloud' = [cloud EXCEPT ![e] = c]
                  /\ state' = [state EXCEPT ![e] = s]
            BY <2>6, <4>2 DEF TerraformDestroyFails
          <5>2. cred' = cred \/ cred' = [cred EXCEPT ![e] = FALSE]
            BY <2>6, <4>2 DEF TerraformDestroyFails
          <5>3. cloud' \in [Env -> Actual] /\ state' \in [Env -> Actual]
            BY <5>1
          <5>4. cred' \in [Env -> BOOLEAN]
            BY <5>2
          <5>5. QED
            BY <5>3, <5>4
        <4>3. QED
          BY <4>1, <4>2
      <3>2. erase' \in [Env -> {"idle", "destroy", "ok", "failed"}]
        BY <2>6 DEF TerraformDestroyFails
      <3>3. faults' \in 0..MaxFaults /\ UNCHANGED <<job, want, owner, future, edits>>
        BY <2>6 DEF TerraformDestroyFails
      <3>4. EnvTypeOK'
        BY <3>1, <3>2, <3>3
      <3>5. QED
        BY <1>16, <3>4 DEF loopVars
    <2>7. QED
      BY <1>16, <2>1, <2>2, <2>3, <2>4, <2>5, <2>6 DEF ChildStep
  <1>17. ASSUME ByHand, UNCHANGED loopVars PROVE TypeOK'
    BY <1>17 DEF ByHand, EditRetention, DeleteNamespace, loopVars
  <1>18. UNCHANGED vars => TypeOK'
    BY DEF vars, envVars, loopVars
  <1> HIDE DEF TypeOK, EnvTypeOK, Actual, NoChecks, Fault
  <1>19. Next => TypeOK'
    <2> SUFFICES ASSUME Next PROVE TypeOK'
      OBVIOUS
    <2>1. QED
      BY <1>1, <1>2, <1>3, <1>4, <1>5, <1>6, <1>7, <1>8, <1>9, <1>10, <1>11, <1>12,
         <1>13, <1>14, <1>15, <1>16, <1>17 DEF Next, Signal, LoopStep, LoopMishap, EnvNext
  <1>20. QED
    BY <1>18, <1>19

\* Type correctness of the entity workflow and its children.
THEOREM TypeCorrect == Spec => []TypeOK
  <1>1. QED
    BY TypeInit, TypeNext, PTL DEF Spec

-----------------------------------------------------------------------------
(***************************************************************************)
(* The inductive invariant.  The properties of Reconciler talk about the   *)
(* two children of an environment; what keeps them apart is where the      *)
(* parent is, so each part ties a child to the parent's pc.                *)
(***************************************************************************)

\* Apply children run only while the parent collects, for the spec in force.
ChildrenInv ==
  \A e \in Env : job[e] # "idle" =>
    /\ pc = "collect"
    /\ e \in desired.envs
    /\ want[e] = desired.ret
    /\ owner[e] = Reconciling
    /\ future[Reconciling][e] = "pending"

\* The mint comes after the apply has been recorded.
MintInv == \A e \in Env : job[e] = "mint" => state[e] = want[e]

\* A future that resolved to ok is still true when it is collected.
FutureInv ==
  pc = "collect" => \A e \in desired.envs :
    future[Reconciling][e] = "ok" => state[e] = desired.ret /\ cred[e]

\* Destroy children run only while the parent prunes, for stale environments.
EraseInv ==
  \A e \in Env :
    /\ erase[e] # "idle" => pc = "prune" /\ e \in stale
    /\ erase[e] = "ok" => state[e] = Absent

\* What is being pruned is not wanted.
PruneInv == pc = "prune" => retiring \/ stale \cap desired.envs = {}

\* A run that has begun to tear down does nothing else.
RetireInv == retiring => pc \in {"prune", "none"}

IInv ==
  /\ ChildrenInv /\ MintInv /\ FutureInv
  /\ EraseInv /\ PruneInv /\ RetireInv
  /\ StatusHonest /\ Bookkeeping

LEMMA InvInit == Init => IInv
  BY DEF Init, EnvInit, IInv, ChildrenInv, MintInv, FutureInv, EraseInv, PruneInv,
         RetireInv, StatusHonest, Bookkeeping

LEMMA InvNext == TypeOK /\ IInv /\ [Next]_vars => IInv'
  <1> SUFFICES ASSUME TypeOK, IInv, [Next]_vars PROVE IInv'
    OBVIOUS
  <1> USE RetentionAssumption, ReconcilingAssumption
      DEF TypeOK, EnvTypeOK, IInv, ChildrenInv, MintInv, FutureInv, EraseInv, PruneInv,
          RetireInv, StatusHonest, Bookkeeping, Specs
  <1>1. RequestDestroy => IInv'
    BY DEF RequestDestroy, envVars
  <1>2. ASSUME NEW s \in Specs, Sync(s) PROVE IInv'
    BY <1>2 DEF Sync, envVars
  <1>3. StartEnvironments => IInv'
    BY DEF StartEnvironments, StartChildren
  <1>4. Collect => IInv'
    BY DEF Collect, envVars
  <1>5. ASSUME NEW e \in Env, StartDestroy(e) PROVE IInv'
    BY <1>5 DEF StartDestroy, loopVars
  <1>6. ASSUME NEW e \in Env, FinishDestroy(e) PROVE IInv'
    BY <1>6 DEF FinishDestroy
  <1>7. PruneDone => IInv'
    BY DEF PruneDone, ForgetAll, envVars
  <1>8. WaitForNext => IInv'
    BY DEF WaitForNext, envVars
  <1>9. ContinueAsNew => IInv'
    BY DEF ContinueAsNew, ForgetAll, envVars
  <1>10. HandleApply => IInv'
    BY DEF HandleApply, envVars
  <1>11. HandleDestroy => IInv'
    BY DEF HandleDestroy, envVars
  <1>12. Tick => IInv'
    BY DEF Tick, envVars
  <1>13. ASSUME NEW e \in Env, CheckDrift(e) PROVE IInv'
    BY <1>13 DEF CheckDrift, envVars
  <1>14. ASSUME NEW e \in Env, DriftCheckFails(e) PROVE IInv'
    BY <1>14 DEF DriftCheckFails
  <1>15. FinishDriftCheck => IInv'
    BY DEF FinishDriftCheck, envVars
  <1>16. ASSUME NEW e \in Env, ChildStep(e), UNCHANGED loopVars PROVE IInv'
    <2>1. CASE TerraformApply(e)
      BY <1>16, <2>1 DEF TerraformApply, loopVars
    <2>2. CASE TerraformApplyFails(e)
      BY <1>16, <2>2 DEF TerraformApplyFails, CloseChild, loopVars
    <2>3. CASE MintNamespaceKey(e)
      BY <1>16, <2>3 DEF MintNamespaceKey, CloseChild, loopVars
    <2>4. CASE MintFails(e)
      BY <1>16, <2>4 DEF MintFails, CloseChild, loopVars
    <2>5. CASE TerraformDestroy(e)
      BY <1>16, <2>5 DEF TerraformDestroy, loopVars
    <2>6. CASE TerraformDestroyFails(e)
      <3>1. /\ pc = "prune" /\ e \in stale /\ (retiring \/ e \notin desired.envs)
            /\ \A f \in Env : job[f] = "idle"
        BY <2>6 DEF TerraformDestroyFails
      <3>2. /\ state'[e] # Absent => state[e] # Absent
            /\ \A f \in Env : f # e => state'[f] = state[f] /\ cred'[f] = cred[f]
        <4>1. CASE state[e] = Absent
          BY <2>6, <4>1 DEF TerraformDestroyFails
        <4>2. CASE state[e] # Absent
          <5>1. PICK c, s : state' = [state EXCEPT ![e] = s]
            BY <2>6, <4>2 DEF TerraformDestroyFails
          <5>2. cred' = [cred EXCEPT ![e] = FALSE] \/ cred' = cred
            BY <2>6, <4>2 DEF TerraformDestroyFails
          <5>3. QED
            BY <4>2, <5>1, <5>2
        <4>3. QED
          BY <4>1, <4>2
      <3>3. /\ erase'[e] # "ok"
            /\ \A f \in Env : f # e => erase'[f] = erase[f]
        BY <2>6 DEF TerraformDestroyFails
      <3>4. /\ UNCHANGED <<job, want, owner, future>>
            /\ UNCHANGED loopVars
        BY <1>16, <2>6 DEF TerraformDestroyFails
      <3>5. ChildrenInv' /\ MintInv' /\ FutureInv' /\ PruneInv' /\ RetireInv'
        BY <3>1, <3>4 DEF loopVars
      <3>6. EraseInv'
        BY <3>1, <3>2, <3>3, <3>4 DEF loopVars
      <3>7. StatusHonest' /\ Bookkeeping'
        BY <3>1, <3>2, <3>4 DEF loopVars
      <3>8. QED
        BY <3>5, <3>6, <3>7 DEF IInv
    <2>7. QED
      BY <1>16, <2>1, <2>2, <2>3, <2>4, <2>5, <2>6 DEF ChildStep
  <1>17. ASSUME ByHand, UNCHANGED loopVars PROVE IInv'
    BY <1>17 DEF ByHand, EditRetention, DeleteNamespace, loopVars
  <1>18. UNCHANGED vars => IInv'
    BY DEF vars, envVars, loopVars
  <1> HIDE DEF IInv, TypeOK, EnvTypeOK
  <1>19. Next => IInv'
    <2> SUFFICES ASSUME Next PROVE IInv'
      OBVIOUS
    <2>1. QED
      BY <1>1, <1>2, <1>3, <1>4, <1>5, <1>6, <1>7, <1>8, <1>9, <1>10, <1>11, <1>12,
         <1>13, <1>14, <1>15, <1>16, <1>17 DEF Next, Signal, LoopStep, LoopMishap, EnvNext
  <1>20. QED
    BY <1>18, <1>19

LEMMA Invariant == Spec => [](TypeOK /\ IInv)
  <1>1. Init => TypeOK /\ IInv
    BY TypeInit, InvInit
  <1>2. TypeOK /\ IInv /\ [Next]_vars => (TypeOK /\ IInv)'
    BY TypeNext, InvNext
  <1>3. QED
    BY <1>1, <1>2, PTL DEF Spec

-----------------------------------------------------------------------------
(* The safety properties.                                                  *)

\* One writer per state file (ns-<spec>-<env> against ns-<spec>-<env>-destroy), as
\* long as the reconciler is the only driver.
THEOREM OneWriter == Spec => []SingleWriter
  <1>1. IInv => SingleWriter
    BY DEF IInv, ChildrenInv, EraseInv, SingleWriter
  <1>2. QED
    BY <1>1, Invariant, PTL

\* The destroys of pruneRemovedEnvironments and destroyAll hit nothing that is wanted.
THEOREM DestroysTheUnwanted == Spec => []DestroysOnlyUnwanted
  <1>1. TypeOK /\ IInv => DestroysOnlyUnwanted
    BY DEF TypeOK, EnvTypeOK, IInv, EraseInv, PruneInv, DestroysOnlyUnwanted
  <1>2. QED
    BY <1>1, Invariant, PTL

\* An OK status of the namespace-status query was true when it was written, and no
\* step of the program has made it false since.
THEOREM HonestStatus == Spec => []StatusHonest
  <1>1. IInv => StatusHonest
    BY DEF IInv
  <1>2. QED
    BY <1>1, Invariant, PTL

\* No state file with resources is left without a status by an open run.
THEOREM KeepsTheBooks == Spec => []Bookkeeping
  <1>1. IInv => Bookkeeping
    BY DEF IInv
  <1>2. QED
    BY <1>1, Invariant, PTL

\* delete(applied, name) happens only after Terraform emptied the state file.
THEOREM DropsDestroyed == Spec => DropsOnlyDestroyed
  <1> DEFINE Step == pc' \notin {"none", "quota"} =>
                       \A e \in applied \ applied' : state[e] = Absent
  <1>1. TypeOK /\ IInv /\ [Next]_vars => [Step]_vars
    <2> SUFFICES ASSUME TypeOK, IInv, Next PROVE Step
      OBVIOUS
    <2>1. ASSUME NEW e \in Env, FinishDestroy(e) PROVE Step
      BY <2>1 DEF FinishDestroy, IInv, EraseInv
    <2>2. PruneDone => Step
      BY DEF PruneDone, ForgetAll
    <2>3. ContinueAsNew => Step
      BY DEF ContinueAsNew
    <2>4. Collect => Step
      BY DEF Collect
    <2>5. ASSUME applied' = applied PROVE Step
      BY <2>5
    <2>6. Signal => applied' = applied
      BY DEF Signal, RequestDestroy, Sync
    <2>7. /\ StartEnvironments => applied' = applied
          /\ \A e \in Env : StartDestroy(e) => applied' = applied
          /\ WaitForNext => applied' = applied
          /\ HandleApply => applied' = applied
          /\ HandleDestroy => applied' = applied
          /\ Tick => applied' = applied
          /\ \A e \in Env : CheckDrift(e) => applied' = applied
          /\ FinishDriftCheck => applied' = applied
          /\ \A e \in Env : DriftCheckFails(e) => applied' = applied
          /\ EnvNext /\ UNCHANGED loopVars => applied' = applied
      BY DEF StartEnvironments, StartDestroy, WaitForNext, HandleApply, HandleDestroy, Tick,
             CheckDrift, FinishDriftCheck, DriftCheckFails, loopVars
    <2>8. QED
      BY <2>1, <2>2, <2>3, <2>4, <2>5, <2>6, <2>7 DEF Next, LoopStep, LoopMishap
  <1>2. QED
    BY <1>1, Invariant, PTL DEF Spec, DropsOnlyDestroyed

-----------------------------------------------------------------------------
(* The refinement.                                                         *)

LEMMA EntityInit == Init => Entity!Init
  BY DEF Init, EnvInit, Entity!Init, Specs, Entity!Specs

\* What each step of the loop and of its children is, to the entity.
LEMMA EntityNext == TypeOK /\ IInv /\ [Next]_vars => [Entity!Next]_(Entity!vars)
  <1> SUFFICES ASSUME TypeOK, IInv, [Next]_vars PROVE Entity!Next \/ UNCHANGED Entity!vars
    OBVIOUS
  <1> DEFINE Same == UNCHANGED <<pc, desired, retiring, cloud, edits>>
  <1>1. Same => UNCHANGED Entity!vars
    BY DEF Entity!vars
  <1>2. ASSUME NEW s \in Specs, Sync(s) PROVE Entity!Next \/ UNCHANGED Entity!vars
    <2>1. CASE pc = "none"
      <3>1. Entity!Start
        BY <1>2, <2>1 DEF Sync, envVars, Entity!Start, Specs, Entity!Specs
      <3>2. QED
        BY <3>1 DEF Entity!Next
    <2>2. CASE pc # "none"
      BY <1>1, <1>2, <2>2 DEF Sync, envVars
    <2>3. QED
      BY <2>1, <2>2
  <1>3. ASSUME HandleApply PROVE Entity!Next \/ UNCHANGED Entity!vars
    <2>1. pc = "wait" /\ ~retiring
      BY <1>3 DEF HandleApply, IInv, RetireInv
    <2>2. CASE Head(applyQ) = desired
      BY <1>3, <2>1, <2>2 DEF HandleApply, envVars, Entity!vars
    <2>3. CASE Head(applyQ) # desired
      <3>1. Head(applyQ) \in Specs
        BY <1>3, HeadTailProperties DEF HandleApply, TypeOK
      <3>2. Entity!Adopt
        BY <1>3, <2>1, <2>3, <3>1 DEF HandleApply, envVars, Entity!Adopt, Specs, Entity!Specs
      <3>3. QED
        BY <3>2 DEF Entity!Next
    <2>4. QED
      BY <2>2, <2>3
  <1>4. ASSUME HandleDestroy PROVE Entity!Next
    <2>1. pc = "wait" /\ ~retiring
      BY <1>4 DEF HandleDestroy, IInv, RetireInv
    <2>2. Entity!Retire
      BY <1>4, <2>1 DEF HandleDestroy, envVars, Entity!Retire
    <2>3. QED
      BY <2>2 DEF Entity!Next
  <1>5. ASSUME PruneDone PROVE Entity!Next \/ UNCHANGED Entity!vars
    <2>1. CASE retiring
      <3>1. Entity!Stop
        BY <1>5, <2>1 DEF PruneDone, envVars, Entity!Stop
      <3>2. QED
        BY <3>1 DEF Entity!Next
    <2>2. CASE ~retiring
      BY <1>5, <2>2 DEF PruneDone, envVars, Entity!vars
    <2>3. QED
      BY <2>1, <2>2
  <1>6. /\ StartEnvironments => UNCHANGED Entity!vars
        /\ Collect => UNCHANGED Entity!vars
        /\ WaitForNext => UNCHANGED Entity!vars
        /\ ContinueAsNew => UNCHANGED Entity!vars
        /\ Tick => UNCHANGED Entity!vars
        /\ FinishDriftCheck => UNCHANGED Entity!vars
    BY DEF StartEnvironments, Collect, WaitForNext, ContinueAsNew, Tick, FinishDriftCheck,
           envVars, Entity!vars
  <1>7. /\ RequestDestroy => UNCHANGED Entity!vars
        /\ \A e \in Env : StartDestroy(e) => UNCHANGED Entity!vars
        /\ \A e \in Env : FinishDestroy(e) => UNCHANGED Entity!vars
        /\ \A e \in Env : CheckDrift(e) => UNCHANGED Entity!vars
        /\ \A e \in Env : DriftCheckFails(e) => UNCHANGED Entity!vars
    BY DEF RequestDestroy, StartDestroy, FinishDestroy, CheckDrift, DriftCheckFails,
           envVars, loopVars, Entity!vars
  <1>8. ASSUME NEW e \in Env, ChildStep(e), UNCHANGED loopVars
        PROVE  Entity!Next \/ UNCHANGED Entity!vars
    <2>1. ASSUME job[e] = "apply",
                 cloud' = cloud \/ cloud' = [cloud EXCEPT ![e] = want[e]],
                 edits' = edits
          PROVE  Entity!Next \/ UNCHANGED Entity!vars
      <3>1. pc = "collect" /\ ~retiring /\ e \in desired.envs /\ want[e] = desired.ret
        BY <2>1 DEF IInv, ChildrenInv, RetireInv
      <3>2. CASE cloud' = cloud
        BY <1>1, <1>8, <2>1, <3>2 DEF loopVars
      <3>3. CASE cloud' = [cloud EXCEPT ![e] = want[e]]
        <4>1. Entity!Provide(e)
          BY <1>8, <2>1, <3>1, <3>3 DEF loopVars, Entity!Provide
        <4>2. QED
          BY <4>1 DEF Entity!Next
      <3>4. QED
        BY <2>1, <3>2, <3>3
    <2>2. ASSUME erase[e] = "destroy",
                 cloud' = cloud \/ cloud' = [cloud EXCEPT ![e] = Absent],
                 edits' = edits
          PROVE  Entity!Next \/ UNCHANGED Entity!vars
      <3>1. pc = "prune" /\ (retiring \/ e \notin desired.envs)
        BY <2>2 DEF IInv, EraseInv, PruneInv
      <3>2. CASE cloud' = cloud
        BY <1>1, <1>8, <2>2, <3>2 DEF loopVars
      <3>3. CASE cloud' = [cloud EXCEPT ![e] = Absent]
        <4>1. Entity!Remove(e)
          BY <1>8, <2>2, <3>1, <3>3 DEF loopVars, Entity!Remove
        <4>2. QED
          BY <4>1 DEF Entity!Next
      <3>4. QED
        BY <2>2, <3>2, <3>3
    <2>3. CASE TerraformApply(e)
      BY <2>1, <2>3 DEF TerraformApply
    <2>4. CASE TerraformApplyFails(e)
      <3>1. PICK c \in {cloud[e], want[e]} : cloud' = [cloud EXCEPT ![e] = c]
        BY <2>4 DEF TerraformApplyFails
      <3>2. cloud' = cloud \/ cloud' = [cloud EXCEPT ![e] = want[e]]
        BY <3>1 DEF TypeOK, EnvTypeOK
      <3>3. QED
        BY <2>1, <2>4, <3>2 DEF TerraformApplyFails
    <2>5. CASE TerraformDestroy(e)
      BY <2>2, <2>5 DEF TerraformDestroy
    <2>6. CASE TerraformDestroyFails(e)
      <3>1. cloud' = cloud \/ cloud' = [cloud EXCEPT ![e] = Absent]
        <4>1. CASE state[e] = Absent
          BY <2>6, <4>1 DEF TerraformDestroyFails
        <4>2. CASE state[e] # Absent
          <5>1. PICK c \in {cloud[e], Absent} : cloud' = [cloud EXCEPT ![e] = c]
            BY <2>6, <4>2 DEF TerraformDestroyFails
          <5>2. QED
            BY <5>1 DEF TypeOK, EnvTypeOK
        <4>3. QED
          BY <4>1, <4>2
      <3>2. QED
        BY <2>2, <2>6, <3>1 DEF TerraformDestroyFails
    <2>7. CASE MintNamespaceKey(e) \/ MintFails(e)
      BY <1>1, <1>8, <2>7 DEF MintNamespaceKey, MintFails, loopVars
    <2>8. QED
      BY <1>8, <2>3, <2>4, <2>5, <2>6, <2>7 DEF ChildStep
  <1>9. ASSUME ByHand, UNCHANGED loopVars PROVE Entity!Next
    <2>1. PICK e \in Env : DeleteNamespace(e) \/ \E r \in Retention : EditRetention(e, r)
      BY <1>9 DEF ByHand
    <2>2. Entity!ByHand(e)
      BY <1>9, <2>1, RetentionAssumption
         DEF DeleteNamespace, EditRetention, loopVars, Entity!ByHand
    <2>3. QED
      BY <2>2 DEF Entity!Next
  <1>10. UNCHANGED vars => UNCHANGED Entity!vars
    BY <1>1 DEF vars, envVars, loopVars
  <1>11. QED
    BY <1>2, <1>3, <1>4, <1>5, <1>6, <1>7, <1>8, <1>9, <1>10
       DEF Next, Signal, LoopStep, LoopMishap, EnvNext

\* Every run of NamespaceWorkflow is a run of the entity it implements: whatever the
\* loop writes to the Cloud, it writes for the spec in force.
THEOREM Refinement == Spec => Implements
  <1>1. QED
    BY EntityInit, EntityNext, Invariant, PTL DEF Spec, Implements, Entity!Spec

-----------------------------------------------------------------------------
(* Signals, in a run that is never continued as new.                       *)

\* What was delivered last is what is buffered last, or what the run works from.
LastHeard ==
  pc # "none" /\ continued = 0
    => IF applyQ = <<>> THEN desired = intent
       ELSE applyQ[Len(applyQ)] = intent

LEMMA LastHeardNext == TypeOK /\ LastHeard /\ [Next]_vars => LastHeard'
  <1> SUFFICES ASSUME TypeOK, LastHeard, [Next]_vars PROVE LastHeard'
    OBVIOUS
  <1> DEFINE Same == UNCHANGED <<pc, applyQ, desired, intent, continued>>
  <1>1. ASSUME NEW s \in Specs, Sync(s) PROVE LastHeard'
    <2>1. CASE pc = "none"
      <3>1. applyQ' = <<s>> /\ intent' = s /\ continued' = continued
        BY <1>1, <2>1 DEF Sync
      <3>2. <<s>> # <<>> /\ Len(<<s>>) = 1 /\ <<s>>[1] = s
        OBVIOUS
      <3>3. QED
        BY <3>1, <3>2 DEF LastHeard
    <2>2. CASE pc # "none"
      <3>1. applyQ' = Append(applyQ, s) /\ intent' = s /\ continued' = continued
        BY <1>1, <2>2 DEF Sync
      <3>2. /\ applyQ' # <<>>
            /\ applyQ'[Len(applyQ')] = s
        BY <3>1, AppendProperties DEF TypeOK
      <3>3. QED
        BY <3>1, <3>2 DEF LastHeard
    <2>3. QED
      BY <2>1, <2>2
  <1>2. ASSUME HandleApply PROVE LastHeard'
    <2>1. /\ applyQ # <<>> /\ applyQ' = Tail(applyQ) /\ pc = "wait"
          /\ desired' = Head(applyQ) /\ intent' = intent /\ continued' = continued
      BY <1>2 DEF HandleApply
    <2>2. continued = 0 => applyQ[Len(applyQ)] = intent
      BY <2>1 DEF LastHeard
    <2>3. CASE applyQ' = <<>>
      <3>1. Len(applyQ) = 1
        <4>1. Len(Tail(applyQ)) = Len(applyQ) - 1
          BY <2>1, HeadTailProperties DEF TypeOK
        <4>2. Tail(applyQ) = <<>>
          BY <2>1, <2>3
        <4>3. Len(Tail(applyQ)) = 0
          BY <4>2, EmptySeq
        <4>4. Len(applyQ) \in Nat
          BY DEF TypeOK
        <4>5. QED
          BY <4>1, <4>3, <4>4
      <3>2. QED
        BY <2>1, <2>2, <2>3, <3>1 DEF LastHeard, TypeOK
    <2>4. CASE applyQ' # <<>>
      <3>1. applyQ'[Len(applyQ')] = applyQ[Len(applyQ)]
        BY <2>1, <2>4 DEF TypeOK
      <3>2. QED
        BY <2>1, <2>2, <2>4, <3>1 DEF LastHeard
    <2>5. QED
      BY <2>3, <2>4
  <1>3. PruneDone => LastHeard'
    BY DEF PruneDone, LastHeard
  <1>4. ContinueAsNew => LastHeard'
    BY BoundAssumption DEF ContinueAsNew, LastHeard, TypeOK
  <1>5. ASSUME pc # "none", applyQ' = applyQ, desired' = desired, intent' = intent,
               continued' = continued
        PROVE  LastHeard'
    BY <1>5 DEF LastHeard
  <1>6. RequestDestroy => LastHeard'
    BY <1>5 DEF RequestDestroy
  <1>7. /\ StartEnvironments => LastHeard'
        /\ Collect => LastHeard'
        /\ \A e \in Env : StartDestroy(e) => LastHeard'
        /\ \A e \in Env : FinishDestroy(e) => LastHeard'
        /\ WaitForNext => LastHeard'
        /\ HandleDestroy => LastHeard'
        /\ Tick => LastHeard'
        /\ \A e \in Env : CheckDrift(e) => LastHeard'
        /\ \A e \in Env : DriftCheckFails(e) => LastHeard'
    BY <1>5 DEF StartEnvironments, Collect, StartDestroy, FinishDestroy, WaitForNext,
                HandleDestroy, Tick, CheckDrift, DriftCheckFails, loopVars
  <1>8. Same => LastHeard'
    BY DEF LastHeard
  <1>9. FinishDriftCheck => LastHeard'
    <2>1. ASSUME FinishDriftCheck PROVE pc' # "none" /\ UNCHANGED <<applyQ, desired, intent, continued>>
      BY <2>1 DEF FinishDriftCheck
    <2>2. QED
      BY <2>1 DEF LastHeard, FinishDriftCheck, TypeOK
  <1>10. QED
    BY <1>1, <1>2, <1>3, <1>4, <1>6, <1>7, <1>8, <1>9
       DEF Next, Signal, LoopStep, LoopMishap, vars, loopVars

\* As long as nothing continues as new, no signal is missed: a loop that waits with
\* nothing buffered works from the last spec delivered.
THEOREM KeepsIntent == Spec => []IntentKept
  <1>1. Init => LastHeard
    BY DEF Init, LastHeard
  <1>2. TypeOK /\ LastHeard /\ [Next]_vars => LastHeard'
    BY LastHeardNext
  <1>3. LastHeard => IntentKept
    BY DEF LastHeard, IntentKept
  <1>4. QED
    BY <1>1, <1>2, <1>3, TypeCorrect, PTL DEF Spec
=============================================================================
