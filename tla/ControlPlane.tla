---------------------------- MODULE ControlPlane ----------------------------
(***************************************************************************)
(* Everybody who acts on one spec, together: the reconciler, the           *)
(* imperative ProvisionWorkflow of `tpctl apply`, which starts the SAME    *)
(* environment children, and the person with the specs directory, the      *)
(* post-commit hook and tpctl (cmd/tpctl, hooks/post-commit).              *)
(***************************************************************************)
EXTENDS Reconciler

CONSTANTS
  Provisioning,  \* the driver that is ProvisionWorkflow
  NoSpec,        \* no file specs/<name>.yaml
  MaxCommits,    \* bound: commits that write specs/<name>.yaml
  MaxApplies     \* bound: runs of ProvisionWorkflow

ASSUME ProvisioningAssumption == Provisioning \in Driver \ {Reconciling}
ASSUME NoSpecAssumption == NoSpec \notin Specs
ASSUME CommandAssumption == MaxCommits \in Nat /\ MaxApplies \in Nat

VARIABLES
  file,     \* specs/<name>.yaml, or NoSpec
  cli,      \* `tpctl destroy`: "idle", or "signalled" and about to remove the file
  prov,     \* provision-<name>: "none", "quota" or "collect"
  order,    \* its input
  commits, applies

userVars == <<file, cli, prov, order, commits, applies>>
allVars == <<vars, userVars>>

PlaneTypeOK ==
  /\ TypeOK
  /\ file \in Specs \cup {NoSpec}
  /\ cli \in {"idle", "signalled"}
  /\ prov \in {"none", "quota", "collect"}
  /\ order \in Specs
  /\ commits \in 0..MaxCommits
  /\ applies \in 0..MaxApplies

PlaneInit ==
  /\ Init
  /\ file = NoSpec
  /\ cli = "idle"
  /\ prov = "none"
  /\ order = desired
  /\ commits = 0 /\ applies = 0

-----------------------------------------------------------------------------
(* The specs directory and the hook.                                       *)

\* A spec is committed and the hook runs `tpctl sync`.
Commit(s) ==
  /\ commits < MaxCommits
  /\ commits' = commits + 1
  /\ file # s
  /\ file' = s
  /\ Sync(s)
  /\ UNCHANGED <<cli, prov, order, applies>>

\* The hook could not deliver it: tpctl is not on PATH, or the sync failed.  The
\* commit stands.
CommitUnheard(s) ==
  /\ commits < MaxCommits
  /\ commits' = commits + 1
  /\ file # s
  /\ file' = s
  /\ UNCHANGED <<vars, cli, prov, order, applies>>

\* A commit deletes the file.  The hook runs `tpctl sync`, which delivers the files it
\* finds.
CommitRemoval ==
  /\ file # NoSpec
  /\ file' = NoSpec
  /\ UNCHANGED <<vars, cli, prov, order, commits, applies>>

\* `tpctl sync` by hand, or the hook on a commit to another spec: every file in the
\* directory is delivered, this one included if it is there.
SyncDirectory ==
  /\ file # NoSpec
  /\ Sync(file)
  /\ UNCHANGED userVars

-----------------------------------------------------------------------------
(* tpctl destroy: first the signal, then the file, then the wait.          *)

DestroyCommand ==
  /\ cli = "idle"
  /\ RequestDestroy
  /\ cli' = "signalled"
  /\ UNCHANGED <<file, prov, order, commits, applies>>

\* The spec file is the request, and it goes -- unless --keep-spec was given.
DisposeOfSpec ==
  /\ cli = "signalled"
  /\ cli' = "idle"
  /\ file' \in {NoSpec, file}
  /\ UNCHANGED <<vars, prov, order, commits, applies>>

-----------------------------------------------------------------------------
(* tpctl apply: ProvisionWorkflow.                                         *)

\* One run of provision-<name> at a time; a second `tpctl apply` meanwhile gets the
\* run that is open.
ApplyCommand ==
  /\ file # NoSpec
  /\ prov = "none"
  /\ applies < MaxApplies
  /\ applies' = applies + 1
  /\ prov' = "quota"
  /\ order' = file
  /\ UNCHANGED <<vars, file, cli, commits>>

ProvisionStart ==
  /\ prov = "quota"
  /\ prov' = "collect"
  /\ StartChildren(Provisioning, order.envs, order.ret)
  /\ UNCHANGED <<cloud, state, cred, erase, faults, edits, loopVars>>
  /\ UNCHANGED <<file, cli, order, commits, applies>>

\* Mutant of ProvisionFinish: it reports while its children are still at work.
ProvisionFinishEarly ==
  /\ prov = "collect"
  /\ prov' = "none"
  /\ UNCHANGED <<vars, file, cli, order, commits, applies>>

\* It reports the statuses and ends; it keeps none.
ProvisionFinish ==
  /\ prov = "collect"
  /\ \A e \in order.envs : future[Provisioning][e] \in {"ok", "failed"}
  /\ prov' = "none"
  /\ UNCHANGED <<vars, file, cli, order, commits, applies>>

-----------------------------------------------------------------------------

PlaneNext ==
  \/ \E s \in Specs : Commit(s) \/ CommitUnheard(s)
  \/ CommitRemoval
  \/ SyncDirectory
  \/ DestroyCommand \/ DisposeOfSpec
  \/ ApplyCommand \/ ProvisionStart \/ ProvisionFinish
  \/ (LoopStep \/ LoopMishap) /\ UNCHANGED userVars
  \/ EnvNext /\ UNCHANGED <<loopVars, userVars>>

PlaneSpec == PlaneInit /\ [][PlaneNext]_allVars

(***************************************************************************)
(* As for the reconciler: workflows and activities run.  A person owes     *)
(* nothing, but a tpctl process that has signalled goes on to the file.    *)
(***************************************************************************)
PlaneFairSpec ==
  /\ PlaneSpec
  /\ WF_allVars(LoopStep /\ UNCHANGED userVars)
  /\ WF_allVars(ProvisionStart \/ ProvisionFinish \/ DisposeOfSpec)
  /\ \A e \in Env :
       WF_allVars((TerraformApply(e) \/ MintNamespaceKey(e) \/ TerraformDestroy(e))
                    /\ UNCHANGED <<loopVars, userVars>>)

-----------------------------------------------------------------------------
(* Properties.                                                             *)

\* The workflow id is the lock between the two drivers: an open apply child is
\* awaited by the driver that started it and by nobody else, and a driver awaits
\* only children that are open -- the other one was told "already started".
OneOwner ==
  \A e \in Env : \A d \in Driver :
    future[d][e] = "pending" <=> job[e] # "idle" /\ owner[e] = d

\* Whoever writes, somebody asked: a namespace is deleted only by the teardown or because
\* the spec in force does not list it, and created or reconfigured only for the spec in
\* force or for the order of the `tpctl apply` under way -- never for a spec the
\* reconciler has gone on from, or for an apply that has already reported.
WritesAreAsked ==
  [][\A e \in Env : cloud'[e] # cloud[e] /\ edits' = edits =>
       \/ cloud'[e] = Absent /\ (retiring \/ e \notin desired.envs)
       \/ pc = "collect" /\ e \in desired.envs /\ cloud'[e] = desired.ret
       \/ prov = "collect" /\ e \in order.envs /\ cloud'[e] = order.ret]_allVars

\* Nobody waits for ever: a `tpctl apply` reports, whatever the reconciler was doing
\* to the same environments when it arrived.
ApplyReturns == prov # "none" ~> prov = "none"
=============================================================================
