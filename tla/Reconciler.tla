----------------------------- MODULE Reconciler -----------------------------
(***************************************************************************)
(* NamespaceWorkflow (internal/platform/workflow/reconciler.go, wait.go):  *)
(* the entity workflow ns-<spec> that keeps the environments of one spec   *)
(* as the spec asks.  Intent arrives by signal, reality by timer.          *)
(*                                                                         *)
(* pc is where the open run of the workflow is blocked:                    *)
(*   none     no open run                                                  *)
(*   quota    at the top of reconcile(), in checkQuota                     *)
(*   collect  waiting for the apply children's futures                     *)
(*   prune    destroying, one child after the other, what is not wanted    *)
(*   loop     at the top of the for loop                                   *)
(*   wait     in waitForNext                                               *)
(*   drift    waiting for the drift checks                                 *)
(***************************************************************************)
EXTENDS Environments, Sequences

CONSTANTS
  Reconciling,  \* this driver
  MaxSignals,   \* bound: signals sent to the workflow id
  MaxContinue   \* bound: runs that end because the history is long

ASSUME ReconcilingAssumption == Reconciling \in Driver
ASSUME BoundAssumption == MaxSignals \in Nat /\ MaxContinue \in Nat

VARIABLES
  pc,
  desired,    \* the spec the run works from
  applied,    \* the keys of the `applied` map: environments with a status
  healthy,    \* those whose status says OK
  stale,      \* pruneRemovedEnvironments: what is left to destroy
  retiring,   \* status.Destroying
  applyQ,     \* buffered apply signals
  destroyQ,   \* a destroy signal is buffered
  checks,     \* the drift checks of this tick
  sent,       \* signals sent so far
  continued,  \* runs continued as new so far
  intent,     \* history: the last spec anybody delivered
  forgotten   \* history: environments a run still had in `applied` when it ended
              \* and no run has picked up since

loopVars == <<pc, desired, applied, healthy, stale, retiring, applyQ, destroyQ,
              checks, sent, continued, intent, forgotten>>
vars == <<envVars, loopVars>>

\* A valid spec, as far as the loop acts on it: which environments, and how
\* each is configured.  Two specs have the same Fingerprint iff they are equal.
Specs == [envs : SUBSET Env \ {{}}, ret : Retention]

NoChecks == [e \in Env |-> "none"]

TypeOK ==
  /\ EnvTypeOK
  /\ pc \in {"none", "quota", "collect", "prune", "loop", "wait", "drift"}
  /\ desired \in Specs
  /\ applied \in SUBSET Env
  /\ healthy \in SUBSET Env
  /\ stale \in SUBSET Env
  /\ retiring \in BOOLEAN
  /\ applyQ \in Seq(Specs)
  /\ destroyQ \in BOOLEAN
  /\ checks \in [Env -> {"none", "pending", "clean", "drifted", "failed"}]
  /\ sent \in 0..MaxSignals
  /\ continued \in 0..MaxContinue
  /\ intent \in Specs
  /\ forgotten \in SUBSET Env

\* No run yet.  desired and intent only mean something once there has been one.
Init ==
  /\ EnvInit
  /\ pc = "none"
  /\ \E s \in Specs : desired = s /\ intent = s
  /\ applied = {} /\ healthy = {} /\ stale = {} /\ forgotten = {}
  /\ retiring = FALSE
  /\ applyQ = <<>> /\ destroyQ = FALSE
  /\ checks = NoChecks
  /\ sent = 0 /\ continued = 0

-----------------------------------------------------------------------------
(* Signals.                                                                *)

\* Mutant of Sync: a signal handler that overwrites the spec of the open run at once.
SyncOverwrites(s) ==
  /\ sent < MaxSignals
  /\ sent' = sent + 1
  /\ intent' = s /\ desired' = s
  /\ pc' = IF pc = "none" THEN "quota" ELSE pc
  /\ retiring' = (retiring /\ pc # "none")
  /\ UNCHANGED <<envVars, applied, healthy, stale, applyQ, destroyQ, checks, continued,
                 forgotten>>

\* `tpctl sync` for this spec: SignalWithStart.  With no open run a new one
\* starts with the spec as its input AND the same spec as its first signal.
Sync(s) ==
  /\ sent < MaxSignals
  /\ sent' = sent + 1
  /\ intent' = s
  /\ \/ /\ pc = "none"
        /\ pc' = "quota"
        /\ desired' = s
        /\ retiring' = FALSE
        /\ applyQ' = <<s>> /\ destroyQ' = FALSE
     \/ /\ pc # "none"
        /\ applyQ' = Append(applyQ, s)
        /\ UNCHANGED <<pc, desired, retiring, destroyQ>>
  /\ UNCHANGED <<envVars, applied, healthy, stale, checks, continued, forgotten>>

\* `tpctl destroy`: the query needs an open run, and so does the signal.
RequestDestroy ==
  /\ sent < MaxSignals
  /\ pc # "none"
  /\ ~destroyQ
  /\ sent' = sent + 1
  /\ destroyQ' = TRUE
  /\ UNCHANGED <<envVars, pc, desired, applied, healthy, stale, retiring, applyQ,
                 checks, continued, intent, forgotten>>

-----------------------------------------------------------------------------
(* reconcile(): one child per environment, then the pruning.               *)

\* checkQuota only logs, so the children start whatever it found.
StartEnvironments ==
  /\ pc = "quota"
  /\ pc' = "collect"
  /\ StartChildren(Reconciling, desired.envs, desired.ret)
  /\ UNCHANGED <<cloud, state, cred, erase, faults, edits>>
  /\ UNCHANGED <<desired, applied, healthy, stale, retiring, applyQ, destroyQ,
                 checks, sent, continued, intent, forgotten>>

\* Mutant of Collect: the futures are not waited for.
CollectEarly ==
  /\ pc = "collect"
  /\ pc' = "prune"
  /\ applied' = applied \cup desired.envs
  /\ healthy' = (healthy \ desired.envs)
                  \cup {e \in desired.envs : future[Reconciling][e] = "ok"}
  /\ stale' = applied \ desired.envs
  /\ forgotten' = forgotten \ desired.envs
  /\ UNCHANGED <<envVars, desired, retiring, applyQ, destroyQ, checks, sent,
                 continued, intent>>

\* Mutant of Collect: what counts as wanted is what was applied without an error.
CollectWantsHealthy ==
  /\ pc = "collect"
  /\ \A e \in desired.envs : future[Reconciling][e] \in {"ok", "failed"}
  /\ pc' = "prune"
  /\ LET ok == {e \in desired.envs : future[Reconciling][e] = "ok"} IN
       /\ applied' = applied \cup desired.envs
       /\ healthy' = (healthy \ desired.envs) \cup ok
       /\ stale' = (applied \cup desired.envs) \ ok
  /\ forgotten' = forgotten \ desired.envs
  /\ UNCHANGED <<envVars, desired, retiring, applyQ, destroyQ, checks, sent,
                 continued, intent>>

\* Mutant of Collect: a failed environment keeps the status it had.
CollectKeepsOld ==
  /\ pc = "collect"
  /\ \A e \in desired.envs : future[Reconciling][e] \in {"ok", "failed"}
  /\ pc' = "prune"
  /\ applied' = applied \cup desired.envs
  /\ healthy' = healthy \cup {e \in desired.envs : future[Reconciling][e] = "ok"}
  /\ stale' = applied \ desired.envs
  /\ forgotten' = forgotten \ desired.envs
  /\ UNCHANGED <<envVars, desired, retiring, applyQ, destroyQ, checks, sent,
                 continued, intent>>

\* Mutant of Collect: only an environment that succeeded gets a status.
CollectOnlyOK ==
  /\ pc = "collect"
  /\ \A e \in desired.envs : future[Reconciling][e] \in {"ok", "failed"}
  /\ pc' = "prune"
  /\ LET ok == {e \in desired.envs : future[Reconciling][e] = "ok"} IN
       /\ applied' = applied \cup ok
       /\ healthy' = (healthy \ desired.envs) \cup ok
       /\ forgotten' = forgotten \ ok
  /\ stale' = applied \ desired.envs
  /\ UNCHANGED <<envVars, desired, retiring, applyQ, destroyQ, checks, sent,
                 continued, intent>>

\* Every future has resolved.  A status is kept for every environment, failed or
\* not, and the environments with a status that the spec does not list are stale.
Collect ==
  /\ pc = "collect"
  /\ \A e \in desired.envs : future[Reconciling][e] \in {"ok", "failed"}
  /\ pc' = "prune"
  /\ applied' = applied \cup desired.envs
  /\ healthy' = (healthy \ desired.envs)
                  \cup {e \in desired.envs : future[Reconciling][e] = "ok"}
  /\ stale' = applied \ desired.envs
  /\ forgotten' = forgotten \ desired.envs
  /\ UNCHANGED <<envVars, desired, retiring, applyQ, destroyQ, checks, sent,
                 continued, intent>>

\* Start the destroy child of the first stale environment.
StartDestroy(e) ==
  /\ pc = "prune"
  /\ \A f \in Env : erase[f] = "idle"
  /\ e \in stale
  /\ \A f \in stale : e <= f
  /\ erase' = [erase EXCEPT ![e] = "destroy"]
  /\ UNCHANGED <<cloud, state, cred, job, want, owner, future, faults, edits, loopVars>>

\* Mutant of FinishDestroy: the status goes whatever the destroy said.
FinishDestroyBlindly(e) ==
  /\ pc = "prune"
  /\ erase[e] \in {"ok", "failed"}
  /\ erase' = [erase EXCEPT ![e] = "idle"]
  /\ stale' = stale \ {e}
  /\ applied' = applied \ {e} /\ healthy' = healthy \ {e}
  /\ UNCHANGED <<cloud, state, cred, job, want, owner, future, faults, edits, pc, desired,
                 retiring, applyQ, destroyQ, checks, sent, continued, intent, forgotten>>

\* Its result: the status is dropped only if the destroy succeeded; either way
\* the loop goes on with the next one.
FinishDestroy(e) ==
  /\ pc = "prune"
  /\ erase[e] \in {"ok", "failed"}
  /\ erase' = [erase EXCEPT ![e] = "idle"]
  /\ stale' = stale \ {e}
  /\ IF erase[e] = "ok"
     THEN applied' = applied \ {e} /\ healthy' = healthy \ {e}
     ELSE UNCHANGED <<applied, healthy>>
  /\ UNCHANGED <<cloud, state, cred, job, want, owner, future, faults, edits, pc, desired,
                 retiring, applyQ, destroyQ, checks, sent, continued, intent, forgotten>>

\* The `applied` map is a local variable of the run and ends with it.
ForgetAll ==
  /\ forgotten' = forgotten \cup applied
  /\ applied' = {}
  /\ healthy' = {}

\* Mutant of PruneDone: the run ends only if every destroy succeeded.
PruneDoneIfEmpty ==
  /\ pc = "prune"
  /\ stale = {}
  /\ IF retiring /\ applied = {}
     THEN /\ pc' = "none"
          /\ applyQ' = <<>> /\ destroyQ' = FALSE
          /\ ForgetAll
     ELSE /\ pc' = "loop"
          /\ UNCHANGED <<applyQ, destroyQ, applied, healthy, forgotten>>
  /\ UNCHANGED <<envVars, desired, stale, retiring, checks, sent, continued, intent>>

\* Nothing is left to destroy.  After a destroy request the workflow returns nil,
\* whatever the children said, and takes unread signals with it.
PruneDone ==
  /\ pc = "prune"
  /\ stale = {}
  /\ IF retiring
     THEN /\ pc' = "none"
          /\ applyQ' = <<>> /\ destroyQ' = FALSE
          /\ ForgetAll
     ELSE /\ pc' = "loop"
          /\ UNCHANGED <<applyQ, destroyQ, applied, healthy, forgotten>>
  /\ UNCHANGED <<envVars, desired, stale, retiring, checks, sent, continued, intent>>

-----------------------------------------------------------------------------
(* The loop.                                                               *)

WaitForNext ==
  /\ pc = "loop"
  /\ pc' = "wait"
  /\ UNCHANGED <<envVars, desired, applied, healthy, stale, retiring, applyQ, destroyQ,
                 checks, sent, continued, intent, forgotten>>

\* The history is longer than historyLimit: a new run starts with `desired` as its
\* input and nothing else.  Its `applied` map is empty, and signals the old run had
\* not received are gone.
ContinueAsNew ==
  /\ pc = "loop"
  /\ continued < MaxContinue
  /\ continued' = continued + 1
  /\ pc' = "quota"
  /\ applyQ' = <<>> /\ destroyQ' = FALSE
  /\ ForgetAll
  /\ UNCHANGED <<envVars, desired, stale, retiring, checks, sent, intent>>

\* Mutant of HandleApply: one receive empties the buffer.
HandleApplyDrains ==
  /\ pc = "wait"
  /\ applyQ # <<>>
  /\ applyQ' = <<>>
  /\ IF Head(applyQ) = desired
     THEN pc' = "loop" /\ UNCHANGED desired
     ELSE pc' = "quota" /\ desired' = Head(applyQ)
  /\ UNCHANGED <<envVars, applied, healthy, stale, retiring, destroyQ, checks, sent,
                 continued, intent, forgotten>>

\* eventApply: a spec that has not changed is not intent.
HandleApply ==
  /\ pc = "wait"
  /\ applyQ # <<>>
  /\ applyQ' = Tail(applyQ)
  /\ IF Head(applyQ) = desired
     THEN pc' = "loop" /\ UNCHANGED desired
     ELSE pc' = "quota" /\ desired' = Head(applyQ)
  /\ UNCHANGED <<envVars, applied, healthy, stale, retiring, destroyQ, checks, sent,
                 continued, intent, forgotten>>

\* eventDestroy: the selector tries the apply channel first.  destroyAll prunes
\* with an empty environment list.
HandleDestroy ==
  /\ pc = "wait"
  /\ applyQ = <<>>
  /\ destroyQ
  /\ destroyQ' = FALSE
  /\ retiring' = TRUE
  /\ stale' = applied
  /\ pc' = "prune"
  /\ UNCHANGED <<envVars, desired, applied, healthy, applyQ, checks, sent, continued,
                 intent, forgotten>>

\* eventTick: the timer fires while nothing is buffered.
Tick ==
  /\ pc = "wait"
  /\ applyQ = <<>>
  /\ ~destroyQ
  /\ pc' = "drift"
  /\ checks' = [e \in Env |-> IF e \in desired.envs THEN "pending" ELSE "none"]
  /\ UNCHANGED <<envVars, desired, applied, healthy, stale, retiring, applyQ, destroyQ,
                 sent, continued, intent, forgotten>>

\* Mutant of CheckDrift: only a missing namespace is drift.
CheckDriftMissing(e) ==
  /\ pc = "drift"
  /\ checks[e] = "pending"
  /\ checks' = [checks EXCEPT ![e] = IF cloud[e] = Absent THEN "drifted" ELSE "clean"]
  /\ UNCHANGED <<envVars, pc, desired, applied, healthy, stale, retiring, applyQ, destroyQ,
                 sent, continued, intent, forgotten>>

\* The DetectDrift activity of e reads the Cloud: missing, or the wrong retention.
CheckDrift(e) ==
  /\ pc = "drift"
  /\ checks[e] = "pending"
  /\ checks' = [checks EXCEPT ![e] =
                  IF cloud[e] # desired.ret THEN "drifted" ELSE "clean"]
  /\ UNCHANGED <<envVars, pc, desired, applied, healthy, stale, retiring, applyQ, destroyQ,
                 sent, continued, intent, forgotten>>

\* All three attempts failed.
DriftCheckFails(e) ==
  /\ pc = "drift"
  /\ checks[e] = "pending"
  /\ Fault
  /\ checks' = [checks EXCEPT ![e] = "failed"]
  /\ UNCHANGED <<cloud, state, cred, job, want, owner, future, erase, edits, pc, desired,
                 applied, healthy, stale, retiring, applyQ, destroyQ, sent, continued,
                 intent, forgotten>>

\* The futures are read in order, up to the first that reports drift; a check that
\* failed is not drift.
FinishDriftCheck ==
  /\ pc = "drift"
  /\ \/ /\ \E e \in Env : /\ checks[e] = "drifted"
                          /\ \A f \in Env : f < e => checks[f] # "pending"
        /\ pc' = "quota"
     \/ /\ \A e \in Env : checks[e] \notin {"pending", "drifted"}
        /\ pc' = "loop"
  /\ checks' = NoChecks
  /\ UNCHANGED <<envVars, desired, applied, healthy, stale, retiring, applyQ, destroyQ,
                 sent, continued, intent, forgotten>>

-----------------------------------------------------------------------------

LoopStep ==
  \/ StartEnvironments \/ Collect
  \/ \E e \in Env : StartDestroy(e) \/ FinishDestroy(e)
  \/ PruneDone
  \/ WaitForNext \/ HandleApply \/ HandleDestroy \/ Tick
  \/ \E e \in Env : CheckDrift(e)
  \/ FinishDriftCheck

\* What may happen to the loop.
LoopMishap == ContinueAsNew \/ \E e \in Env : DriftCheckFails(e)

Signal == RequestDestroy \/ \E s \in Specs : Sync(s)

Next ==
  \/ Signal
  \/ LoopStep
  \/ LoopMishap
  \/ EnvNext /\ UNCHANGED loopVars

Spec == Init /\ [][Next]_vars

(***************************************************************************)
(* A workflow task that can run does run, and a scheduled activity is      *)
(* retried until an attempt succeeds or the last one fails: Temporal       *)
(* persists both, so neither is lost with a worker.  The timer is durable. *)
(* Signals, edits by hand, faults and continue-as-new owe nothing.         *)
(***************************************************************************)
Fairness ==
  /\ WF_vars(LoopStep)
  /\ \A e \in Env :
       WF_vars((TerraformApply(e) \/ MintNamespaceKey(e) \/ TerraformDestroy(e))
                 /\ UNCHANGED loopVars)

FairSpec == Spec /\ Fairness
-----------------------------------------------------------------------------
(* Safety.                                                                 *)

\* One writer per state file: while a destroy child runs for an environment, no
\* apply child does.  The two have different workflow ids, so nothing but the
\* order of the steps of reconcile() and destroyAll keeps them apart.
SingleWriter == \A e \in Env : erase[e] = "destroy" => job[e] = "idle"

\* A destroy child runs only for an environment nobody wants: the spec the run
\* works from does not list it, or the whole namespace is being torn down.
DestroysOnlyUnwanted ==
  \A e \in Env : erase[e] = "destroy" => retiring \/ e \notin desired.envs

\* The status is honest: outside a reconcile, an environment the status calls OK
\* was last written by Terraform with the retention of the current spec, and its
\* worker's key is in Vault.
StatusHonest ==
  pc \in {"prune", "loop", "wait", "drift"} /\ ~retiring =>
    \A e \in healthy \cap desired.envs : state[e] = desired.ret /\ cred[e]

\* Nothing Terraform manages drops out of the books while a run is open: a state
\* file with a namespace in it belongs to an environment with a status, to one
\* being applied, or to one that an earlier run ended with.  It is why a failed
\* apply is recorded too.
Bookkeeping ==
  \A e \in Env : state[e] # Absent =>
    e \in applied \cup forgotten \/ (pc = "collect" /\ e \in desired.envs)

\* Whoever waits has heard everything: in waitForNext with no signal buffered, the
\* loop works from the last spec anybody delivered -- as long as no run has continued
\* as new, which is what loses signals.
IntentKept ==
  pc \in {"wait", "drift"} /\ applyQ = <<>> /\ continued = 0 => desired = intent

(* Action properties.                                                      *)

\* An open run drops an environment's status only when its state file is empty.
DropsOnlyDestroyed ==
  [][pc' \notin {"none", "quota"} =>
       \A e \in applied \ applied' : state[e] = Absent]_vars

(* Liveness.                                                               *)

\* The loop converges on reality: in the end there is no run, or every environment
\* of the spec it works from exists with the retention asked for -- whatever was
\* edited or deleted by hand and whatever failed on the way.
Converges ==
  <>[](pc # "none" => \A e \in desired.envs : cloud[e] = desired.ret)

\* A destroy request is honoured, whatever fails: it ends the run, unless a
\* continue-as-new throws it away first.
DestroyHonoured == destroyQ /\ continued = MaxContinue ~> pc = "none"

(* Stated by the repository, and not so.                                   *)

\* environment.go: a failed mint fails the environment "so the reconciler retries":
\* in the end every environment of the spec has its key in Vault.
CredentialDelivered == <>[](pc # "none" => \A e \in desired.envs : cred[e])

\* tpctl destroy: "Tear down every namespace a spec asked for, and stop its
\* reconciler"; it prints "done" when the run has ended.  No namespace that Terraform
\* manages -- one its state file lists -- is left in the Cloud then.
TearsDownEverything ==
  [][retiring /\ pc' = "none" => \A e \in Env : state[e] = Absent \/ cloud[e] = Absent]_vars

(* Refinement.                                                             *)

Entity == INSTANCE NamespaceEntity WITH active <- pc # "none", spec <- desired

\* The loop implements its promise: every write to the Cloud is for the spec in
\* force at that moment, never for one that has been superseded, and the entity
\* survives everything but a destroy request -- continue-as-new included.
Implements == Entity!Spec
=============================================================================
